---- MODULE Spec2Model ----
(***************************************************************************)
(* dloom: hierarchical configuration resolution (internal/config) and the  *)
(* filesystem reconciliation engines (internal/link, internal/unlink).     *)
(*                                                                         *)
(* A path is a sequence of name components; <<>> is the filesystem root    *)
(* and also the empty string ("not set") of a configured directory.        *)
(* filepath.Join is concatenation, filepath.Dir drops the last component.  *)
(***************************************************************************)
EXTENDS Integers, Sequences, FiniteSets, TLC

(***************************************************************************)
(* Bounds of the model.                                                    *)
(***************************************************************************)
\* number of LinkPackage / UnlinkPackage calls in one behaviour
MaxCalls == 2
\* symbolic links followed while resolving one path
MaxHops == 2

\* the sequences over S of length 1 to n
RECURSIVE SeqsUpTo(_, _)
SeqsUpTo(S, n) ==
  IF n = 0 THEN {}
  ELSE {<<x>> : x \in S} \cup SeqsUpTo(S, n - 1)
       \cup {Append(t, x) : t \in SeqsUpTo(S, n - 1), x \in S}

(***************************************************************************)
(* Paths.                                                                  *)
(***************************************************************************)
Bad == <<"!">>

Dir(p) == IF Len(p) = 0 THEN <<>> ELSE SubSeq(p, 1, Len(p) - 1)

\* filepath.Base: "." for the empty path
Base(p) == IF Len(p) = 0 THEN "." ELSE p[Len(p)]

Join(a, b) == a \o b

\* the relative paths of the model: the entries of a source tree (a, b, d,
\* d/a), the renamed d/b, and names no source tree has (c, e, e/a, e/b)
Rels ==
  { <<>>, <<"a">>, <<"b">>, <<"c">>, <<"d">>, <<"e">>,
    <<"d", "a">>, <<"d", "b">>, <<"e", "a">>, <<"e", "b">> }

\* "T" the global target directory, "U" an overriding target directory,
\* "B" the backup directory, "P" the source directory of the package
Roots == {"T", "U", "B", "P"}

Paths == {Join(<<r>>, rel) : r \in Roots, rel \in Rels}

(***************************************************************************)
(* Filesystem: every path of Paths holds a node.                           *)
(***************************************************************************)
None == [k |-> "none", data |-> "", perm |-> {}, dest |-> <<>>]

DirNode == [k |-> "dir", data |-> "", perm |-> {}, dest |-> <<>>]

FileNode(data, perm) == [k |-> "file", data |-> data, perm |-> perm, dest |-> <<>>]

LinkNode(dest) == [k |-> "link", data |-> "", perm |-> {}, dest |-> dest]

NodeAt(f, p) == IF p \in DOMAIN f THEN f[p] ELSE None

RECURSIVE Canon(_, _, _)
\* the directory entry a path names: its parent resolved through symbolic
\* links, the last component not followed (what lstat, readlink, remove and
\* symlink act on); Bad when the parent is missing or is not a directory
Loc(f, p, n) ==
  LET At(par) ==
        IF par = Bad THEN Bad
        ELSE IF Len(par) > 0 /\ NodeAt(f, par).k # "dir" THEN Bad
        ELSE Join(par, <<Base(p)>>)
  IN IF Len(p) = 0 THEN <<>> ELSE At(Canon(f, Dir(p), n))

\* a path with every symbolic link followed (what stat and open act on);
\* Bad when it names nothing
Canon(f, p, n) ==
  LET At(l) ==
        IF l = Bad THEN Bad
        ELSE IF NodeAt(f, l).k = "none" THEN Bad
        ELSE IF NodeAt(f, l).k = "link"
             THEN IF n = 0 THEN Bad ELSE Canon(f, NodeAt(f, l).dest, n - 1)
        ELSE l
  IN IF Len(p) = 0 THEN <<>> ELSE At(Loc(f, p, n))

\* os.Lstat: "ok", "noent" (os.IsNotExist) or "other" (ENOTDIR)
Lstat(f, p) ==
  LET At(l) ==
        IF l = Bad
        THEN [st |-> IF Canon(f, Dir(p), MaxHops) = Bad THEN "noent" ELSE "other",
              node |-> None]
        ELSE IF NodeAt(f, l).k = "none" THEN [st |-> "noent", node |-> None]
        ELSE [st |-> "ok", node |-> NodeAt(f, l)]
  IN At(Loc(f, p, MaxHops))

\* os.Stat: follows symbolic links
Stat(f, p) ==
  LET At(c) ==
        IF c = Bad THEN [st |-> "noent", node |-> None]
        ELSE [st |-> "ok", node |-> IF Len(c) = 0 THEN DirNode ELSE NodeAt(f, c)]
  IN At(Canon(f, p, MaxHops))

\* the entries directly below a directory
Children(f, d) == {p \in DOMAIN f : Len(p) = Len(d) + 1 /\ Dir(p) = d /\ f[p].k # "none"}

RECURSIVE MkdirAll(_, _)
\* os.MkdirAll: nothing to do when the path is a directory (also through a
\* symbolic link), an error when it is something else, otherwise the parents
\* first and then the directory itself
MkdirAll(f, p) ==
  LET Mkdir(g, l) ==
        IF l = Bad \/ l \notin DOMAIN g \/ g[l].k # "none"
        THEN [fs |-> g, err |-> TRUE]
        ELSE [fs |-> [g EXCEPT ![l] = DirNode], err |-> FALSE]
      Parents(r) == IF r.err THEN r ELSE Mkdir(r.fs, Loc(r.fs, p, MaxHops))
      At(s) ==
        IF s.st = "ok" THEN [fs |-> f, err |-> s.node.k # "dir"]
        ELSE IF Len(p) = 0 THEN [fs |-> f, err |-> TRUE]
        ELSE Parents(MkdirAll(f, Dir(p)))
  IN At(Stat(f, p))

\* os.Remove: a file, a symbolic link or an empty directory
Remove(f, p) ==
  LET At(l) ==
        IF l = Bad \/ l \notin DOMAIN f \/ NodeAt(f, l).k = "none"
           \/ (NodeAt(f, l).k = "dir" /\ Children(f, l) # {})
        THEN [fs |-> f, err |-> TRUE]
        ELSE [fs |-> [f EXCEPT ![l] = None], err |-> FALSE]
  IN At(Loc(f, p, MaxHops))

\* os.Symlink(oldname, newname)
Symlink(f, oldname, newname) ==
  LET At(l) ==
        IF l = Bad \/ l \notin DOMAIN f \/ NodeAt(f, l).k # "none"
        THEN [fs |-> f, err |-> TRUE]
        ELSE [fs |-> [f EXCEPT ![l] = LinkNode(oldname)], err |-> FALSE]
  IN At(Loc(f, newname, MaxHops))

RECURSIVE OpenLoc(_, _, _)
\* where open(O_CREATE) lands: the last component is followed too, and a
\* dangling symbolic link leads to the entry it names
OpenLoc(f, p, n) ==
  LET At(l) ==
        IF l = Bad THEN Bad
        ELSE IF NodeAt(f, l).k = "link"
             THEN IF n = 0 THEN Bad ELSE OpenLoc(f, NodeAt(f, l).dest, n - 1)
        ELSE l
  IN At(Loc(f, p, n))

\* os.WriteFile(name, data, perm): an existing file is truncated and keeps
\* its mode; a new file gets perm with the bits of the umask cleared
WriteFile(f, p, data, perm, umask) ==
  LET At(l) ==
        IF l = Bad \/ l \notin DOMAIN f \/ NodeAt(f, l).k = "dir"
        THEN [fs |-> f, err |-> TRUE]
        ELSE IF f[l].k = "file"
             THEN [fs |-> [f EXCEPT ![l] = FileNode(data, f[l].perm)], err |-> FALSE]
             ELSE [fs |-> [f EXCEPT ![l] = FileNode(data, perm \ umask)], err |-> FALSE]
  IN At(OpenLoc(f, p, MaxHops))

\* copyFile: ReadFile and Stat of src (both follow symbolic links), then
\* WriteFile to dst with the permissions of src
copyFile(f, src, dst, umask) ==
  LET At(s) ==
        IF s.st # "ok" \/ s.node.k # "file"
        THEN [fs |-> f, err |-> TRUE]
        ELSE WriteFile(f, dst, s.node.data, s.node.perm, umask)
  IN At(Stat(f, src))

(***************************************************************************)
(* Conditions (internal/conditions).  An environment is what the probes    *)
(* of the running machine return.                                          *)
(***************************************************************************)
\* strings.ToLower on the distro names of the model
ToLower(s) == IF s = "Arch" THEN "arch" ELSE IF s = "Ubuntu" THEN "ubuntu" ELSE s

\* strings.EqualFold
EqualFold(s, t) == ToLower(s) = ToLower(t)

MatchesOSCondition(osConditions, env) ==
  IF Len(osConditions) = 0 THEN TRUE
  ELSE \E i \in 1..Len(osConditions) : osConditions[i] = env.os

MatchesDistroCondition(distroConditions, env) ==
  IF Len(distroConditions) = 0 THEN TRUE
  ELSE IF env.os # "linux" THEN TRUE
  ELSE IF env.distro = "" THEN FALSE
  ELSE \E i \in 1..Len(distroConditions) : EqualFold(distroConditions[i], env.distro)

\* MatchesExecutableCondition satisfied by one executable found
MatchesExecutableAny(executableConditions, env) ==
  IF Len(executableConditions) = 0 THEN TRUE
  ELSE \E i \in 1..Len(executableConditions) : executableConditions[i] \in env.execs

\* every listed executable must be found by exec.LookPath
MatchesExecutableCondition(executableConditions, env) ==
  IF Len(executableConditions) = 0 THEN TRUE
  ELSE \A i \in 1..Len(executableConditions) : executableConditions[i] \in env.execs

MatchesUserCondition(userConditions, env) ==
  IF Len(userConditions) = 0 THEN TRUE
  ELSE \E i \in 1..Len(userConditions) : userConditions[i] = env.user

(***************************************************************************)
(* Version strings.  A version, a constraint and the output of a version   *)
(* probe are Go strings and are modelled as sequences of one-character     *)
(* strings, so that splitting, trimming and parsing are computed.          *)
(***************************************************************************)
\* the byte of a character of the model
Byte(ch) ==
  CASE ch = " " -> 32 [] ch = "+" -> 43 [] ch = "-" -> 45 [] ch = "." -> 46
    [] ch = "0" -> 48 [] ch = "1" -> 49 [] ch = "2" -> 50 [] ch = "3" -> 51
    [] ch = "4" -> 52 [] ch = "5" -> 53 [] ch = "6" -> 54 [] ch = "7" -> 55
    [] ch = "8" -> 56 [] ch = "9" -> 57 [] ch = "<" -> 60 [] ch = "=" -> 61
    [] ch = ">" -> 62 [] ch = "a" -> 97 [] ch = "b" -> 98

Digits == {"0", "1", "2", "3", "4", "5", "6", "7", "8", "9"}

\* strings.HasPrefix
HasPrefix(s, prefix) ==
  Len(s) >= Len(prefix) /\ SubSeq(s, 1, Len(prefix)) = prefix

\* strings.TrimPrefix
TrimPrefix(s, prefix) ==
  IF HasPrefix(s, prefix) THEN SubSeq(s, Len(prefix) + 1, Len(s)) ELSE s

\* strings.TrimSpace: the white space of the model is the space
RECURSIVE TrimSpace(_)
TrimSpace(s) ==
  IF s = <<>> THEN s
  ELSE IF Head(s) = " " THEN TrimSpace(Tail(s))
  ELSE IF s[Len(s)] = " " THEN TrimSpace(SubSeq(s, 1, Len(s) - 1))
  ELSE s

\* strings.Split(s, "."): the empty string has the one component ""
RECURSIVE Split(_)
Split(s) ==
  IF \A i \in 1..Len(s) : s[i] # "." THEN <<s>>
  ELSE LET At(k) == <<SubSeq(s, 1, k - 1)>> \o Split(SubSeq(s, k + 1, Len(s)))
       IN At(CHOOSE k \in 1..Len(s) : s[k] = "." /\ \A j \in 1..(k - 1) : s[j] # ".")

\* the value of a string of decimal digits
RECURSIVE DigitsValue(_)
DigitsValue(s) ==
  IF s = <<>> THEN 0
  ELSE 10 * DigitsValue(SubSeq(s, 1, Len(s) - 1)) + (Byte(s[Len(s)]) - Byte("0"))

\* strconv.Atoi: an optional sign, then one decimal digit or more; the
\* numbers of the model are far inside the range of int
Atoi(s) ==
  LET Unsigned(t, sign) ==
        IF t = <<>> \/ \E i \in 1..Len(t) : t[i] \notin Digits
        THEN [ok |-> FALSE, n |-> 0]
        ELSE [ok |-> TRUE, n |-> sign * DigitsValue(t)]
  IN IF s # <<>> /\ Head(s) = "-" THEN Unsigned(Tail(s), -1)
     ELSE IF s # <<>> /\ Head(s) = "+" THEN Unsigned(Tail(s), 1)
     ELSE Unsigned(s, 1)

\* strings.Compare: the order of the bytes
RECURSIVE Compare(_, _)
Compare(a, b) ==
  IF a = <<>> /\ b = <<>> THEN 0
  ELSE IF a = <<>> THEN -1
  ELSE IF b = <<>> THEN 1
  ELSE IF Byte(Head(a)) < Byte(Head(b)) THEN -1
  ELSE IF Byte(Head(a)) > Byte(Head(b)) THEN 1
  ELSE Compare(Tail(a), Tail(b))

\* compareVersions with the missing-component results exchanged
RECURSIVE CompareShorterGreater(_, _, _)
CompareShorterGreater(parts1, parts2, i) ==
  IF i > Len(parts1) /\ i > Len(parts2) THEN 0
  ELSE IF i > Len(parts1) THEN 1
  ELSE IF i > Len(parts2) THEN -1
  ELSE LET At(num1, num2, comp) ==
             IF num1.ok /\ num2.ok
             THEN IF num1.n < num2.n THEN -1
                  ELSE IF num1.n > num2.n THEN 1
                  ELSE CompareShorterGreater(parts1, parts2, i + 1)
             ELSE IF comp # 0 THEN comp
             ELSE CompareShorterGreater(parts1, parts2, i + 1)
       IN At(Atoi(parts1[i]), Atoi(parts2[i]), Compare(parts1[i], parts2[i]))

\* the loop of compareVersions from component i on
RECURSIVE CompareFrom(_, _, _)
CompareFrom(parts1, parts2, i) ==
  IF i > Len(parts1) /\ i > Len(parts2) THEN 0
  ELSE IF i > Len(parts1) THEN -1
  ELSE IF i > Len(parts2) THEN 1
  ELSE LET At(num1, num2, comp) ==
             IF num1.ok /\ num2.ok
             THEN IF num1.n < num2.n THEN -1
                  ELSE IF num1.n > num2.n THEN 1
                  ELSE CompareFrom(parts1, parts2, i + 1)
             ELSE IF comp # 0 THEN comp
             ELSE CompareFrom(parts1, parts2, i + 1)
       IN At(Atoi(parts1[i]), Atoi(parts2[i]), Compare(parts1[i], parts2[i]))

compareVersions(v1, v2) == CompareFrom(Split(v1), Split(v2), 1)

\* versionMeetsConstraint: the operator is the first prefix found, the
\* rest and the version are trimmed
versionMeetsConstraint(version, constraint) ==
  LET Meets(operator, requiredVersion) ==
        LET At(comparison) ==
              CASE operator = ">=" -> comparison >= 0
                [] operator = ">" -> comparison > 0
                [] operator = "<=" -> comparison <= 0
                [] operator = "<" -> comparison < 0
                [] operator \in {"=", ""} -> comparison = 0
                [] OTHER -> FALSE
        IN At(compareVersions(TrimSpace(version), TrimSpace(requiredVersion)))
  IN IF HasPrefix(constraint, <<">", "=">>)
     THEN Meets(">=", TrimPrefix(constraint, <<">", "=">>))
     ELSE IF HasPrefix(constraint, <<">">>)
     THEN Meets(">", TrimPrefix(constraint, <<">">>))
     ELSE IF HasPrefix(constraint, <<"<", "=">>)
     THEN Meets("<=", TrimPrefix(constraint, <<"<", "=">>))
     ELSE IF HasPrefix(constraint, <<"<">>)
     THEN Meets("<", TrimPrefix(constraint, <<"<">>))
     ELSE IF HasPrefix(constraint, <<"=">>)
     THEN Meets("=", TrimPrefix(constraint, <<"=">>))
     ELSE Meets("", constraint)

\* MatchesExecutableVersionCondition: every named executable is found, its
\* version is determined and meets its constraint; env.vers is what
\* getExecutableVersion returns for an executable, as [ok, v]
MatchesExecutableVersionCondition(versionConditions, env) ==
  IF DOMAIN versionConditions = {} THEN TRUE
  ELSE \A execName \in DOMAIN versionConditions :
         /\ execName \in env.execs
         /\ env.vers[execName].ok
         /\ versionMeetsConstraint(env.vers[execName].v, versionConditions[execName])

\* A ConditionSet; the pointer *ConditionSet is a set holding at most one.
CondSet(os, distro, executable, executableVersion, user) ==
  [OS |-> os, Distro |-> distro, Executable |-> executable,
   ExecutableVersion |-> executableVersion, User |-> user]

\* MatchesConditions on a *ConditionSet ({} is nil); the length of a map is
\* the size of its domain
MatchesConditions(conditionSet, env) ==
  IF conditionSet = {} THEN TRUE
  ELSE \A cs \in conditionSet :
         /\ ~(Len(cs.OS) > 0 /\ ~MatchesOSCondition(cs.OS, env))
         /\ ~(Len(cs.Distro) > 0 /\ ~MatchesDistroCondition(cs.Distro, env))
         /\ ~(Len(cs.Executable) > 0 /\ ~MatchesExecutableCondition(cs.Executable, env))
         /\ ~(DOMAIN cs.ExecutableVersion # {}
               /\ ~MatchesExecutableVersionCondition(cs.ExecutableVersion, env))
         /\ ~(Len(cs.User) > 0 /\ ~MatchesUserCondition(cs.User, env))

(***************************************************************************)
(* Configuration (Config, PackageConfig, FileConfig) and its resolution.   *)
(* A *bool is a set holding at most one boolean ({} is nil); a directory   *)
(* that is the empty string is the empty path <<>>.                        *)
(***************************************************************************)
\* strings.HasPrefix(pattern, "regex:") on the keys of the model
HasRegexPrefix(pattern) == pattern \in {"regex:.*", "regex:a$", "regex:^d/"}

\* strings.TrimPrefix(pattern, "regex:")
TrimRegexPrefix(pattern) ==
  CASE pattern = "regex:.*" -> ".*"
    [] pattern = "regex:a$" -> "a$"
    [] pattern = "regex:^d/" -> "^d/"
    [] OTHER -> pattern

\* regexp.MatchString(regexPattern, relativePath) for the patterns of the
\* model; the relative path "" is the empty sequence and names of the model
\* are single letters
MatchString(regexPattern, relativePath) ==
  CASE regexPattern = ".*" -> TRUE
    [] regexPattern = "a$" -> Len(relativePath) > 0 /\ relativePath[Len(relativePath)] = "a"
    [] regexPattern = "^d/" -> Len(relativePath) > 1 /\ relativePath[1] = "d"
    [] OTHER -> FALSE

RECURSIVE RangeRegex(_, _, _, _)
\* the loop "for pattern, fc := range pkg.Files" over the keys in the order
\* the map iteration yields them: the first "regex:" key that matches, as a
\* set holding at most one key
RangeRegex(files, order, i, relativePath) ==
  IF i > Len(order) THEN {}
  ELSE IF HasRegexPrefix(order[i])
          /\ MatchString(TrimRegexPrefix(order[i]), relativePath)
       THEN {order[i]}
       ELSE RangeRegex(files, order, i + 1, relativePath)

\* a faulty FileKey: the regex keys are tried before the literal key
FileKeyRegexFirst(files, order, relativePath) ==
  IF RangeRegex(files, order, 1, relativePath) # {}
  THEN RangeRegex(files, order, 1, relativePath)
  ELSE IF Base(relativePath) \in DOMAIN files THEN {Base(relativePath)} ELSE {}

\* the key of the file override GetEffectiveConfig applies: the literal key
\* equal to the base name first, the regex keys otherwise
FileKey(files, order, relativePath) ==
  IF Base(relativePath) \in DOMAIN files
  THEN {Base(relativePath)}
  ELSE RangeRegex(files, order, 1, relativePath)

\* a faulty ApplyPackage: the package's dry_run replaces the global one
ApplyPackageDryRunAssigned(eff, pkg) ==
  [eff EXCEPT
     !.TargetDir = IF pkg.TargetDir # <<>> THEN pkg.TargetDir ELSE @,
     !.BackupDir = IF pkg.BackupDir # <<>> THEN pkg.BackupDir ELSE @,
     !.Force = IF pkg.Force # {} THEN pkg.Force ELSE @,
     !.Verbose = IF pkg.Verbose # {} THEN pkg.Verbose ELSE @,
     !.DryRun = pkg.DryRun,
     !.Conditions = pkg.Conditions]

\* the overlay of the package-level fields
ApplyPackage(eff, pkg) ==
  [eff EXCEPT
     !.TargetDir = IF pkg.TargetDir # <<>> THEN pkg.TargetDir ELSE @,
     !.BackupDir = IF pkg.BackupDir # <<>> THEN pkg.BackupDir ELSE @,
     !.Force = IF pkg.Force # {} THEN pkg.Force ELSE @,
     !.Verbose = IF pkg.Verbose # {} THEN pkg.Verbose ELSE @,
     !.DryRun = IF pkg.DryRun THEN pkg.DryRun ELSE @,
     !.Conditions = pkg.Conditions]

\* a faulty ApplyFile: a *bool of the file override is followed only when
\* it points to true
ApplyFileTrueOnly(eff, fileConfig, relativePath) ==
  [eff EXCEPT
     !.TargetDir = IF fileConfig.TargetDir # <<>> THEN fileConfig.TargetDir ELSE @,
     !.TargetName = IF fileConfig.TargetName # <<>>
                    THEN Join(Dir(relativePath), fileConfig.TargetName) ELSE @,
     !.BackupDir = IF fileConfig.BackupDir # <<>> THEN fileConfig.BackupDir ELSE @,
     !.Force = IF fileConfig.Force = {TRUE} THEN fileConfig.Force ELSE @,
     !.Verbose = IF fileConfig.Verbose = {TRUE} THEN fileConfig.Verbose ELSE @,
     !.DryRun = IF fileConfig.DryRun THEN fileConfig.DryRun ELSE @,
     !.Conditions = IF fileConfig.Conditions # {} THEN fileConfig.Conditions ELSE @]

\* a faulty ApplyFile: the conditions of the file override are added to
\* those of the package
ApplyFileConditionsMerged(eff, fileConfig, relativePath) ==
  [eff EXCEPT
     !.TargetDir = IF fileConfig.TargetDir # <<>> THEN fileConfig.TargetDir ELSE @,
     !.TargetName = IF fileConfig.TargetName # <<>>
                    THEN Join(Dir(relativePath), fileConfig.TargetName) ELSE @,
     !.BackupDir = IF fileConfig.BackupDir # <<>> THEN fileConfig.BackupDir ELSE @,
     !.Force = IF fileConfig.Force # {} THEN fileConfig.Force ELSE @,
     !.Verbose = IF fileConfig.Verbose # {} THEN fileConfig.Verbose ELSE @,
     !.DryRun = IF fileConfig.DryRun THEN fileConfig.DryRun ELSE @,
     !.Conditions = @ \cup fileConfig.Conditions]

\* the overlay of the matched file override
ApplyFile(eff, fileConfig, relativePath) ==
  [eff EXCEPT
     !.TargetDir = IF fileConfig.TargetDir # <<>> THEN fileConfig.TargetDir ELSE @,
     !.TargetName = IF fileConfig.TargetName # <<>>
                    THEN Join(Dir(relativePath), fileConfig.TargetName) ELSE @,
     !.BackupDir = IF fileConfig.BackupDir # <<>> THEN fileConfig.BackupDir ELSE @,
     !.Force = IF fileConfig.Force # {} THEN fileConfig.Force ELSE @,
     !.Verbose = IF fileConfig.Verbose # {} THEN fileConfig.Verbose ELSE @,
     !.DryRun = IF fileConfig.DryRun THEN fileConfig.DryRun ELSE @,
     !.Conditions = IF fileConfig.Conditions # {} THEN fileConfig.Conditions ELSE @]

\* Config.GetEffectiveConfig; order is the iteration order of pkg.Files
GetEffectiveConfig(c, packageName, relativePath, order) ==
  LET seed == [TargetDir |-> c.TargetDir, TargetName |-> relativePath,
               BackupDir |-> c.BackupDir, Force |-> {c.Force},
               Verbose |-> {c.Verbose}, DryRun |-> c.DryRun, Conditions |-> {}]
      File(pkg, eff, key) ==
        IF key = {} THEN eff
        ELSE ApplyFile(eff, pkg.Files[CHOOSE k \in key : TRUE], relativePath)
      Package(pkg) ==
        File(pkg, ApplyPackage(seed, pkg), FileKey(pkg.Files, order, relativePath))
  IN IF packageName \notin DOMAIN c.Packages THEN seed
     ELSE Package(c.Packages[packageName])

\* the iteration orders of a map: every permutation of its keys
Orders(files) ==
  {o \in [1..Cardinality(DOMAIN files) -> DOMAIN files] :
     \A i, j \in 1..Cardinality(DOMAIN files) : i # j => o[i] # o[j]}

FilesOf(c, packageName) ==
  IF packageName \in DOMAIN c.Packages THEN c.Packages[packageName].Files ELSE <<>>

\* what GetEffectiveConfig can return for one (package, path): one result
\* per iteration order
Resolutions(c, packageName, relativePath) ==
  {GetEffectiveConfig(c, packageName, relativePath, o) : o \in Orders(FilesOf(c, packageName))}

\* the home directory ExpandPath substitutes for a leading "~"
Home == <<"T">>

\* the working directory: the directory that holds the roots of the model
Cwd == <<>>

\* filepath.Abs: a path that does not start at a root of the model is taken
\* from the working directory
Abs(path) == IF Len(path) > 0 /\ path[1] \in Roots THEN path ELSE Join(Cwd, path)

\* ExpandPath: a leading "~" becomes the home directory, then filepath.Abs
ExpandPath(path) ==
  Abs(IF Len(path) > 0 /\ path[1] = "~" THEN Join(Home, Tail(path)) ELSE path)

\* Config.GetSourcePath: the package's own source directory as it is
\* written, else the global source directory and the package name, expanded
GetSourcePath(c, packageName) ==
  IF packageName \in DOMAIN c.Packages /\ c.Packages[packageName].SourceDir # <<>>
  THEN c.Packages[packageName].SourceDir
  ELSE ExpandPath(Join(c.SourceDir, <<packageName>>))

\* pkgDirAbs of LinkPackage and UnlinkPackage: filepath.Abs of the source path
PkgDirAbs(c, packageName) == Abs(GetSourcePath(c, packageName))

\* Config.GetTargetPath, from the effective configuration it resolved
GetTargetPath(effectiveConfig) ==
  ExpandPath(Join(effectiveConfig.TargetDir, effectiveConfig.TargetName))

\* Config.GetBackupPath: <<>> is "", backups disabled
GetBackupPath(effectiveConfig, relativePath) ==
  IF effectiveConfig.BackupDir = <<>> THEN <<>>
  ELSE ExpandPath(Join(effectiveConfig.BackupDir, relativePath))

\* Config.IsDryRun
IsDryRun(effectiveConfig) == effectiveConfig.DryRun

\* Config.ShouldForce: *effectiveConfig.Force
ShouldForce(effectiveConfig) == TRUE \in effectiveConfig.Force

\* Config.ShouldBeVerbose: *effectiveConfig.Verbose
ShouldBeVerbose(effectiveConfig) == TRUE \in effectiveConfig.Verbose

(***************************************************************************)
(* The link engine (internal/link.go).  A step result is the filesystem    *)
(* after the step, whether the step returned an error, and the events of   *)
(* the step: the system calls that changed the filesystem, each with the   *)
(* node it found at its path, and the branches taken.                      *)
(***************************************************************************)
\* strings.ToLower on the answers of the model
LowerAnswer(s) == IF s = "Y" THEN "y" ELSE IF s = "YES" THEN "yes" ELSE s

\* the lines a user can type at the prompt; "" is the bare newline, on which
\* fmt.Scanln returns an error
Answers == {"y", "Y", "yes", "n", ""}

\* the I/O steps that may fail for a reason outside the model (permissions,
\* a full disk), "none" for a run without such a failure
Faults == {"none", "mkdir", "copy", "remove", "symlink"}

Ev(kind, path, node) == [kind |-> kind, path |-> path, node |-> node]

Ok(f, ev) == [fs |-> f, err |-> FALSE, ev |-> ev]

\* a faulty Fail: the error of a step is dropped
FailDropped(f, ev) == [fs |-> f, err |-> FALSE, ev |-> ev]

Fail(f, ev) == [fs |-> f, err |-> TRUE, ev |-> ev]

\* os.MkdirAll as a step
StepMkdirAll(f, p, fault) ==
  LET At(m) == [fs |-> m.fs, err |-> m.err,
                ev |-> IF m.fs # f THEN {Ev("mkdir", p, None)} ELSE {}]
  IN IF fault = "mkdir" THEN Fail(f, {}) ELSE At(MkdirAll(f, p))

\* a faulty LinkCreate: the symlink is created in a dry run too
LinkCreateInDryRun(f, ev, sourcePath, targetPath, r, fault) ==
  IF Symlink(f, ExpandPath(sourcePath), ExpandPath(targetPath)).err THEN Fail(f, ev)
  ELSE Ok(Symlink(f, ExpandPath(sourcePath), ExpandPath(targetPath)).fs,
          ev \cup {Ev("symlink", targetPath, None)})

\* "Create symlink" (the end of linkFile)
LinkCreate(f, ev, sourcePath, targetPath, r, fault) ==
  LET At(s) == IF s.err THEN Fail(f, ev)
               ELSE Ok(s.fs, ev \cup {Ev("symlink", targetPath, None)})
  IN IF r.dry5 THEN Ok(f, ev)
     ELSE IF fault = "symlink" THEN Fail(f, ev)
     ELSE At(Symlink(f, ExpandPath(sourcePath), ExpandPath(targetPath)))

\* "Remove existing target", then the symlink
LinkRemove(f, ev, sourcePath, targetPath, r, fault) ==
  LET At(s) ==
        IF s.err THEN Fail(f, ev)
        ELSE LinkCreate(s.fs, ev \cup {Ev("remove", targetPath, Lstat(f, targetPath).node)},
                        sourcePath, targetPath, r, fault)
  IN IF r.dry4 THEN LinkCreate(f, ev, sourcePath, targetPath, r, fault)
     ELSE IF fault = "remove" THEN Fail(f, ev)
     ELSE At(Remove(f, targetPath))

\* a faulty LinkBackup: the target is removed without a backup
LinkBackupSkipped(f, ev, sourcePath, targetPath, r, fault, umask) ==
  LinkRemove(f, ev, sourcePath, targetPath, r, fault)

\* "Backup if backup directory is set", then removal and symlink
LinkBackup(f, ev, sourcePath, targetPath, r, fault, umask) ==
  LET Copied(m, c) ==
        IF c.err THEN Fail(m.fs, ev \cup m.ev)
        ELSE LinkRemove(c.fs, ev \cup m.ev \cup {Ev("copy", r.backup, NodeAt(m.fs, r.backup))},
                        sourcePath, targetPath, r, fault)
      At(m) ==
        IF m.err \/ fault = "copy" THEN Fail(m.fs, ev \cup m.ev)
        ELSE Copied(m, copyFile(m.fs, targetPath, r.backup, umask))
  IN IF r.backup = <<>> \/ r.dry3
     THEN LinkRemove(f, ev, sourcePath, targetPath, r, fault)
     ELSE At(StepMkdirAll(f, Dir(r.backup), fault))

\* the events of the prompt: the question, and the line that fmt.Scanln
\* read in answer to it
Asked(targetPath, node, answer) ==
  {Ev("prompt", targetPath, node),
   Ev("answer", targetPath, [k |-> "line", data |-> answer, perm |-> {}, dest |-> <<>>])}

\* a faulty LinkExisting: whatever is at the target path is left there
LinkExistingKept(f, ev, sourcePath, targetPath, r, answer, fault, umask) ==
  Ok(f, ev \cup {Ev("already", targetPath, Lstat(f, targetPath).node)})

\* the target exists: already linked, or a conflict to confirm and replace
LinkExisting(f, ev, sourcePath, targetPath, r, answer, fault, umask) ==
  LET At(node) ==
        IF node.k = "link" /\ node.dest = sourcePath
        THEN Ok(f, ev \cup {Ev("already", targetPath, node)})
        ELSE IF ~r.force /\ ~r.dry2
        THEN IF answer = "" THEN Fail(f, ev \cup Asked(targetPath, node, answer))
             ELSE IF LowerAnswer(answer) # "y"
             THEN Ok(f, ev \cup Asked(targetPath, node, answer)
                          \cup {Ev("declined", targetPath, node)})
             ELSE LinkBackup(f, ev \cup Asked(targetPath, node, answer), sourcePath,
                             targetPath, r, fault, umask)
        ELSE LinkBackup(f, ev, sourcePath, targetPath, r, fault, umask)
  IN At(Lstat(f, targetPath).node)

\* linkFile; r gives what each call into the configuration returned
linkFile(f, sourcePath, targetPath, r, answer, fault, umask) ==
  LET Checked(m, st) ==
        IF st = "ok"
        THEN LinkExisting(m.fs, m.ev, sourcePath, targetPath, r, answer, fault, umask)
        ELSE IF st = "other" THEN Fail(m.fs, m.ev)
        ELSE LinkCreate(m.fs, m.ev, sourcePath, targetPath, r, fault)
      At(m) == IF m.err THEN m ELSE Checked(m, Lstat(m.fs, targetPath).st)
  IN At(IF r.dry1 THEN Ok(f, {}) ELSE StepMkdirAll(f, Dir(targetPath), fault))

\* a faulty LinkWalkFn: the conditions of the entry are not looked at
LinkWalkFnUnconditional(f, env, pkgDirAbs, relPath, r, answer, fault, umask) ==
  IF NodeAt(f, Join(pkgDirAbs, relPath)).k = "dir"
  THEN IF r.dryDir THEN Ok(f, {}) ELSE StepMkdirAll(f, r.target, fault)
  ELSE linkFile(f, Join(pkgDirAbs, relPath), r.target, r, answer, fault, umask)

\* the filepath.Walk callback of LinkPackage for one entry below the root
LinkWalkFn(f, env, pkgDirAbs, relPath, r, answer, fault, umask) ==
  IF ~MatchesConditions(r.cond, env)
  THEN Ok(f, {Ev("skipped", Join(pkgDirAbs, relPath), None)})
  ELSE IF NodeAt(f, Join(pkgDirAbs, relPath)).k = "dir"
  THEN IF r.dryDir THEN Ok(f, {}) ELSE StepMkdirAll(f, r.target, fault)
  ELSE linkFile(f, Join(pkgDirAbs, relPath), r.target, r, answer, fault, umask)

(***************************************************************************)
(* The unlink engine (internal/unlink.go).                                 *)
(***************************************************************************)
\* "Restore from backup if available"
UnlinkRestore(f, ev, targetPath, r, fault, umask) ==
  LET Removed(c, d) ==
        Ok(d.fs, ev \cup {Ev("restore", targetPath, Lstat(f, targetPath).node)}
                    \cup (IF d.err THEN {} ELSE {Ev("rmbackup", r.backup, None)}))
      At(c) == IF c.err THEN Fail(f, ev) ELSE Removed(c, Remove(c.fs, r.backup))
  IN IF r.backup = <<>> \/ Stat(f, r.backup).st # "ok" \/ r.dry2
     THEN Ok(f, ev)
     ELSE IF fault = "copy" THEN Fail(f, ev)
     ELSE At(copyFile(f, r.backup, targetPath, umask))

\* a faulty unlinkFile: the backup is restored whatever is at the target
unlinkFileAlwaysRestores(f, sourcePath, targetPath, r, fault, umask) ==
  LET Removed(ls, s) ==
        IF s.err THEN Fail(f, {})
        ELSE UnlinkRestore(s.fs, {Ev("unlink", targetPath, ls.node)}, targetPath, r,
                           fault, umask)
      At(ls) ==
        IF ls.st = "ok" /\ ls.node.k = "link" /\ ls.node.dest = sourcePath /\ ~r.dry1
        THEN Removed(ls, Remove(f, targetPath))
        ELSE UnlinkRestore(f, {}, targetPath, r, fault, umask)
  IN At(Lstat(f, targetPath))

\* unlinkFile
unlinkFile(f, sourcePath, targetPath, r, fault, umask) ==
  LET Removed(ls, s) ==
        IF s.err THEN Fail(f, {})
        ELSE UnlinkRestore(s.fs, {Ev("unlink", targetPath, ls.node)}, targetPath, r,
                           fault, umask)
      At(ls) ==
        IF ls.st = "noent" THEN Ok(f, {})
        ELSE IF ls.st = "other" THEN Fail(f, {})
        ELSE IF ls.node.k # "link" THEN Ok(f, {})
        ELSE IF ls.node.dest = sourcePath
        THEN IF r.dry1 THEN UnlinkRestore(f, {}, targetPath, r, fault, umask)
             ELSE IF fault = "remove" THEN Fail(f, {})
             ELSE Removed(ls, Remove(f, targetPath))
        ELSE UnlinkRestore(f, {}, targetPath, r, fault, umask)
  IN At(Lstat(f, targetPath))

\* the filepath.Walk callback of UnlinkPackage for one entry below the
\* root; dirs is the emptyDirs map after the entry
UnlinkWalkFn(f, env, dirs, pkgDirAbs, relPath, r, fault, umask) ==
  IF ~MatchesConditions(r.cond, env)
  THEN [res |-> Ok(f, {Ev("skipped", Join(pkgDirAbs, relPath), None)}), dirs |-> dirs]
  ELSE IF NodeAt(f, Join(pkgDirAbs, relPath)).k = "dir"
  THEN [res |-> Ok(f, {}), dirs |-> dirs \cup {r.target}]
  ELSE [res |-> unlinkFile(f, Join(pkgDirAbs, relPath), r.target, r, fault, umask),
        dirs |-> dirs]

\* os.ReadDir: the entries of a directory (also through a symbolic link)
ReadDir(f, dir) ==
  LET At(c) ==
        IF c = Bad \/ (Len(c) > 0 /\ NodeAt(f, c).k # "dir")
        THEN [err |-> TRUE, entries |-> {}]
        ELSE [err |-> FALSE, entries |-> Children(f, c)]
  IN At(Canon(f, dir, MaxHops))

\* a faulty sortByDepth: the shallowest paths first
sortByDepthShallowFirst(paths) ==
  {o \in [1..Cardinality(paths) -> paths] :
     /\ \A i, j \in 1..Cardinality(paths) : i # j => o[i] # o[j]
     /\ \A i, j \in 1..Cardinality(paths) : i < j => Len(o[i]) <= Len(o[j])}

\* sortByDepth: the orders sort.Slice can leave the paths in, deepest first
\* (the number of separators of an absolute path is its length here)
sortByDepth(paths) ==
  {o \in [1..Cardinality(paths) -> paths] :
     /\ \A i, j \in 1..Cardinality(paths) : i # j => o[i] # o[j]
     /\ \A i, j \in 1..Cardinality(paths) : i < j => Len(o[i]) >= Len(o[j])}

RECURSIVE CleanDirs(_, _, _, _, _)
\* "Clean up empty directories": one sweep over the sorted directories; a
\* directory that cannot be read or removed is passed over
CleanDirs(f, ev, dirs, i, fault) ==
  LET Removed(s) ==
        IF s.err THEN CleanDirs(f, ev, dirs, i + 1, fault)
        ELSE CleanDirs(s.fs, ev \cup {Ev("rmdir", dirs[i], Lstat(f, dirs[i]).node)},
                       dirs, i + 1, fault)
      At(rd) ==
        IF rd.err \/ rd.entries # {} THEN CleanDirs(f, ev, dirs, i + 1, fault)
        ELSE Removed(IF fault = "remove" THEN [fs |-> f, err |-> TRUE]
                     ELSE Remove(f, dirs[i]))
  IN IF i > Len(dirs) THEN Ok(f, ev) ELSE At(ReadDir(f, dirs[i]))

\* the second pass of UnlinkPackage; dryA is what the IsDryRun call before
\* the loop returned and dryB what the one inside the loop returns
UnlinkCleanup(f, dirs, dryA, dryB, fault) ==
  IF dryA \/ dryB THEN Ok(f, {}) ELSE CleanDirs(f, {}, dirs, 1, fault)

(***************************************************************************)
(* The machine and the configurations of the model.                        *)
(***************************************************************************)
\* what the probes return on the machine of the model
Env ==
  [os |-> "linux", distro |-> "arch", execs |-> {"git"}, user |-> "u",
   vers |-> [x \in {"git"} |-> [ok |-> TRUE, v |-> <<"2", ".", "1", "0">>]]]

\* a condition set that matches Env and one that does not
CondPass == CondSet(<<"linux">>, <<>>, <<>>, <<>>, <<>>)

CondFail == CondSet(<<"darwin">>, <<>>, <<>>, <<>>, <<>>)

\* a PackageConfig and a FileConfig with nothing set
PkgBase ==
  [SourceDir |-> <<>>, TargetDir |-> <<>>, BackupDir |-> <<>>, Force |-> {},
   Verbose |-> {}, DryRun |-> FALSE, Conditions |-> {}, Files |-> <<>>]

FileBase ==
  [TargetDir |-> <<>>, TargetName |-> <<>>, BackupDir |-> <<>>, Force |-> {},
   Verbose |-> {}, DryRun |-> FALSE, Conditions |-> {}]

\* the package overrides of the model, one feature of the configuration each
PkgChoices ==
  { PkgBase,
    [PkgBase EXCEPT !.TargetDir = <<"U">>],
    [PkgBase EXCEPT !.Conditions = {CondFail}],
    [PkgBase EXCEPT !.DryRun = TRUE],
    [PkgBase EXCEPT !.Files = [k \in {"a"} |-> [FileBase EXCEPT !.TargetName = <<"b">>]]],
    [PkgBase EXCEPT !.Files = [k \in {"a"} |-> [FileBase EXCEPT !.TargetDir = <<"U">>]]],
    [PkgBase EXCEPT !.Files = [k \in {"d"} |-> [FileBase EXCEPT !.Conditions = {CondFail}]]],
    [PkgBase EXCEPT !.Files = [k \in {"regex:.*"} |-> [FileBase EXCEPT !.Conditions = {CondFail}]]],
    [PkgBase EXCEPT !.Files = [k \in {"regex:a$"} |-> [FileBase EXCEPT !.DryRun = TRUE]]],
    [PkgBase EXCEPT !.Files = [k \in {"regex:a$", "regex:.*"} |->
                                 IF k = "regex:a$" THEN [FileBase EXCEPT !.TargetDir = <<"U">>]
                                 ELSE FileBase]],
    [PkgBase EXCEPT !.Force = {TRUE},
                    !.Files = [k \in {"a"} |-> [FileBase EXCEPT !.Force = {FALSE}]]],
    [PkgBase EXCEPT !.TargetDir = <<"~">>],
    [PkgBase EXCEPT !.SourceDir = <<"~", "e">>] }

\* the name of the package of the model; its source directory is <<"P">>
PkgName == "P"

\* a Config with target directory T
Global(b, f, d, ps) ==
  [SourceDir |-> <<>>, TargetDir |-> <<"T">>, BackupDir |-> b, Force |-> f,
   Verbose |-> FALSE, DryRun |-> d, Packages |-> ps]

\* the configurations of the model: every global setting without a package
\* override, and every package override under the global defaults with and
\* without force
Configs ==
  {Global(b, f, d, <<>>) : b \in {<<"B">>, <<>>}, f \in BOOLEAN, d \in BOOLEAN}
  \cup {Global(<<"B">>, f, FALSE, [n \in {PkgName} |-> pc]) : f \in BOOLEAN, pc \in PkgChoices}

\* permission bits
Perm644 == {"ur", "uw", "gr", "or"}

Perm664 == {"ur", "uw", "gr", "gw", "or"}

\* the source tree of the package (files a and b, directory d with file a)
\* and, in the target tree, a file c and an empty directory e that belong
\* to nobody
SourceTree ==
  [p \in Paths |->
     CASE p = <<"P">> -> DirNode
       [] p = <<"P", "a">> -> FileNode("src-a", Perm644)
       [] p = <<"P", "b">> -> FileNode("src-b", Perm644)
       [] p = <<"P", "d">> -> DirNode
       [] p = <<"P", "d", "a">> -> FileNode("src-da", Perm644)
       [] p = <<"T">> -> DirNode
       [] p = <<"T", "c">> -> FileNode("other", Perm644)
       [] p = <<"T", "e">> -> DirNode
       [] OTHER -> None]

\* what T/a, T/d and B/a can hold before the first call
InitTa ==
  {None, FileNode("old", Perm664), LinkNode(<<"P", "a">>), LinkNode(<<"T", "c">>)}

InitTd == {None, DirNode, FileNode("old", Perm644), LinkNode(<<"T", "e">>)}

InitBa == {None, FileNode("stale", Perm644)}

InitFS ==
  { [SourceTree EXCEPT ![<<"T", "a">>] = ta, ![<<"T", "d">>] = td,
                       ![<<"B">>] = IF ba = None THEN None ELSE DirNode,
                       ![<<"B", "a">>] = ba] :
      ta \in InitTa, td \in InitTd, ba \in InitBa }

\* the bits the process umask clears (022)
Umask == {"gw", "ow"}

\* the entries of the model in the lexical order filepath.Walk visits them
WalkOrder == << <<"a">>, <<"b">>, <<"d">>, <<"d", "a">> >>

\* the entries filepath.Walk finds below the package directory
WalkList(f, pkgDirAbs) ==
  SelectSeq(WalkOrder, LAMBDA rel : NodeAt(f, Join(pkgDirAbs, rel)).k # "none")

\* What the calls of one walk step into the configuration can return.  Each
\* of cfg.GetEffectiveConfig (cond), GetTargetPath (target), GetBackupPath
\* (backup), ShouldForce (force) and the IsDryRun calls (dryDir, dry1..dry5,
\* in source order) resolves the configuration anew, with a map iteration
\* order of its own.
Calls(c, packageName, relPath) ==
  LET Of(R, dry) ==
        { [cond |-> cond, target |-> target, backup |-> backup, force |-> force,
           dryDir |-> dry1, dry1 |-> dry1, dry2 |-> dry2, dry3 |-> dry3,
           dry4 |-> dry4, dry5 |-> dry5] :
            cond \in {e.Conditions : e \in R},
            target \in {GetTargetPath(e) : e \in R},
            backup \in {GetBackupPath(e, relPath) : e \in R},
            force \in {ShouldForce(e) : e \in R},
            dry1 \in dry, dry2 \in dry, dry3 \in dry, dry4 \in dry, dry5 \in dry }
      At(R) == Of(R, {IsDryRun(e) : e \in R})
  IN At(Resolutions(c, packageName, relPath))

VARIABLES
  cfg,        \* the configuration, read-only after load
  io,         \* the system calls that may fail for a reason outside the model
  fs,         \* the filesystem
  op,         \* the call in progress: "idle", "link", "unlink" or "clean"
  todo,       \* the entries the walk has still to visit
  emptyDirs,  \* UnlinkPackage's emptyDirs map
  calls,      \* the calls made so far
  fs0,        \* history: the filesystem when the last call began
  fsInit,     \* history: the filesystem before the first call
  log,        \* history: the events of every call, each with the number of its call
  hist,       \* history: the calls that returned, as [op, err]
  q,          \* the last query of a function on its own and its result
  run         \* the LinkPackages or UnlinkPackages call over a list of packages

vars == <<cfg, io, fs, op, todo, emptyDirs, calls, fs0, fsInit, log, hist, q, run>>

\* no call over a list of packages: o is "link" or "unlink", list the
\* packages given, i the index of the package at hand, phase "enter" (the
\* package is about to be entered), "in" (it is being processed) or "done"
\* (the call returned), ret the result returned ("ok" or "error", naming
\* the package named), entered and failed the history of the packages
\* entered and of the packages that failed
NoRun ==
  [o |-> "none", list |-> <<>>, i |-> 0, phase |-> "done", ret |-> "none",
   named |-> "", entered |-> <<>>, failed |-> <<>>]

\* no query made
NoQuery == [asked |-> FALSE, rel |-> <<>>, order |-> <<>>, eff |-> FileBase]

Init ==
  /\ cfg \in Configs
  /\ io = {}
  /\ fs \in InitFS
  /\ op = "idle"
  /\ todo = <<>>
  /\ emptyDirs = {}
  /\ calls = 0
  /\ fs0 = fs
  /\ fsInit = fs
  /\ log = {}
  /\ hist = <<>>
  /\ q = NoQuery
  /\ run = NoRun

Return(o, e) == Append(hist, [op |-> o, err |-> e])

\* the events ev as events of call n
Logged(ev, n) == {[n |-> n, kind |-> e.kind, path |-> e.path, node |-> e.node] : e \in ev}

\* LinkPackage / UnlinkPackage up to the walk: the package gate on the
\* configuration resolved for the path "", then the source directory
Begin(o) ==
  /\ op = "idle"
  /\ calls < MaxCalls
  /\ calls' = calls + 1
  /\ fs0' = fs
  /\ emptyDirs' = {}
  /\ UNCHANGED <<cfg, io, fs, fsInit, q, run>>
  /\ \E pkgConfig \in Resolutions(cfg, PkgName, <<>>) :
       IF ~MatchesConditions(pkgConfig.Conditions, Env)
       THEN /\ op' = "idle" /\ todo' = <<>>
            /\ log' = log \cup Logged({Ev("gated", GetSourcePath(cfg, PkgName), None)}, calls + 1)
            /\ hist' = Return(o, FALSE)
       ELSE IF Stat(fs, PkgDirAbs(cfg, PkgName)).st # "ok"
       THEN /\ op' = "idle" /\ todo' = <<>>
            /\ log' = log
            /\ hist' = Return(o, TRUE)
       ELSE IF WalkList(fs, PkgDirAbs(cfg, PkgName)) = <<>>
       THEN /\ op' = IF o = "unlink" THEN "clean" ELSE "idle"
            /\ todo' = <<>>
            /\ log' = log
            /\ hist' = IF o = "unlink" THEN hist ELSE Return(o, FALSE)
       ELSE /\ op' = o /\ todo' = WalkList(fs, PkgDirAbs(cfg, PkgName))
            /\ log' = log
            /\ hist' = hist

BeginLink == Begin("link")

BeginUnlink == Begin("unlink")

\* the fault of the model that makes the system call of an event fail
FaultOf(kind) ==
  CASE kind = "restore" -> "copy"
    [] kind \in {"unlink", "rmdir", "rmbackup"} -> "remove"
    [] OTHER -> kind

\* the faults a step can meet: "none", or the failure of one of the system
\* calls the step makes when nothing fails
FaultsFor(ev, enabled) ==
  IF enabled = {} THEN {"none"} ELSE {"none"} \cup ({FaultOf(e.kind) : e \in ev} \cap enabled)

\* history: the failure that the step for an entry met
Met(fault, relPath) ==
  IF fault = "none" THEN {}
  ELSE {Ev("fault", relPath, [k |-> "fault", data |-> fault, perm |-> {}, dest |-> <<>>])}

\* the answers a step can read: any line when it prompts, none otherwise
AnswersFor(ev) == IF \E e \in ev : e.kind = "prompt" THEN Answers ELSE {"n"}

\* the package of the call in progress: the one the loop of LinkPackages /
\* UnlinkPackages is at, the package of the model when it is called alone
CurPkg == IF run.phase = "in" THEN run.list[run.i] ELSE PkgName

\* one entry of LinkPackage's walk; the walk ends on an error and after the
\* last entry
LinkEntry ==
  /\ op = "link"
  /\ todo # <<>>
  /\ \E r \in Calls(cfg, CurPkg, Head(todo)) :
       \E answer \in AnswersFor(LinkWalkFn(fs, Env, PkgDirAbs(cfg, CurPkg), Head(todo),
                                          r, "n", "none", Umask).ev) :
         \E fault \in FaultsFor(LinkWalkFn(fs, Env, PkgDirAbs(cfg, CurPkg), Head(todo),
                                          r, answer, "none", Umask).ev, io) :
           LET Done(res) ==
                 /\ fs' = res.fs
                 /\ log' = log \cup Logged(res.ev \cup Met(fault, Head(todo)), calls)
                 /\ todo' = IF res.err THEN <<>> ELSE Tail(todo)
                 /\ op' = IF res.err \/ Tail(todo) = <<>> THEN "idle" ELSE "link"
                 /\ hist' = IF res.err \/ Tail(todo) = <<>>
                            THEN Return("link", res.err) ELSE hist
           IN Done(LinkWalkFn(fs, Env, PkgDirAbs(cfg, CurPkg), Head(todo),
                              r, answer, fault, Umask))
  /\ UNCHANGED <<cfg, io, emptyDirs, calls, fs0, fsInit, q, run>>

\* one entry of UnlinkPackage's walk
UnlinkEntry ==
  /\ op = "unlink"
  /\ todo # <<>>
  /\ \E r \in Calls(cfg, CurPkg, Head(todo)) :
       \E fault \in FaultsFor(UnlinkWalkFn(fs, Env, emptyDirs, PkgDirAbs(cfg, CurPkg),
                                           Head(todo), r, "none", Umask).res.ev, io) :
         LET Done(w) ==
               /\ fs' = w.res.fs
               /\ log' = log \cup Logged(w.res.ev, calls)
               /\ emptyDirs' = w.dirs
               /\ todo' = IF w.res.err THEN <<>> ELSE Tail(todo)
               /\ op' = IF w.res.err THEN "idle"
                        ELSE IF Tail(todo) = <<>> THEN "clean" ELSE "unlink"
               /\ hist' = IF w.res.err THEN Return("unlink", TRUE) ELSE hist
         IN Done(UnlinkWalkFn(fs, Env, emptyDirs, PkgDirAbs(cfg, CurPkg), Head(todo),
                              r, fault, Umask))
  /\ UNCHANGED <<cfg, io, calls, fs0, fsInit, q, run>>

\* the second pass of UnlinkPackage; its IsDryRun calls resolve the
\* configuration for the path ""
UnlinkClean ==
  /\ op = "clean"
  /\ \E r \in Calls(cfg, CurPkg, <<>>), dirs \in sortByDepth(emptyDirs) :
       \E fault \in FaultsFor(UnlinkCleanup(fs, dirs, r.dry1, r.dry2, "none").ev, io) :
         LET Done(res) ==
               /\ fs' = res.fs
               /\ log' = log \cup Logged(res.ev, calls)
         IN Done(UnlinkCleanup(fs, dirs, r.dry1, r.dry2, fault))
  /\ op' = "idle"
  /\ hist' = Return("unlink", FALSE)
  /\ UNCHANGED <<cfg, io, todo, emptyDirs, calls, fs0, fsInit, q, run>>

Next == BeginLink \/ BeginUnlink \/ LinkEntry \/ UnlinkEntry \/ UnlinkClean

Spec == Init /\ [][Next]_vars

(***************************************************************************)
(* The engines on a machine whose system calls can fail: every step of a   *)
(* walk either runs to its end or meets the failure of one of the system   *)
(* calls it makes.                                                         *)
(***************************************************************************)
\* the configurations of the failing machine: the global settings, not dry
ConfigsIO == {Global(b, f, FALSE, <<>>) : b \in {<<"B">>, <<>>}, f \in BOOLEAN}

InitIO ==
  /\ cfg \in ConfigsIO
  /\ io = Faults \ {"none"}
  /\ fs \in InitFS
  /\ op = "idle"
  /\ todo = <<>>
  /\ emptyDirs = {}
  /\ calls = 0
  /\ fs0 = fs
  /\ fsInit = fs
  /\ log = {}
  /\ hist = <<>>
  /\ q = NoQuery
  /\ run = NoRun

SpecIO == InitIO /\ [][Next]_vars

(***************************************************************************)
(* LinkPackages and UnlinkPackages over a list of packages.  P is the      *)
(* package that has a source tree; X names a package whose source          *)
(* directory does not exist.                                               *)
(***************************************************************************)
MaxPkgs == 2

MissingPkg == "X"

\* opts.Packages: the lists of at most MaxPkgs packages
PackageLists == {<<>>} \cup SeqsUpTo({PkgName, MissingPkg}, MaxPkgs)

\* the configurations: the global defaults with and without force, and a
\* package P whose conditions fail
ConfigsPkgs ==
  {Global(<<"B">>, f, FALSE, <<>>) : f \in BOOLEAN}
  \cup {Global(<<"B">>, TRUE, FALSE, [n \in {PkgName} |-> [PkgBase EXCEPT !.Conditions = {CondFail}]])}

InitPkgs ==
  /\ cfg \in ConfigsPkgs
  /\ io = {}
  /\ fs \in InitFS
  /\ op = "idle"
  /\ todo = <<>>
  /\ emptyDirs = {}
  /\ calls = 0
  /\ fs0 = fs
  /\ fsInit = fs
  /\ log = {}
  /\ hist = <<>>
  /\ q = NoQuery
  /\ run = NoRun

\* a faulty Returning: the loop goes on after a package that failed
ReturningContinued(r, err) ==
  IF r.i = Len(r.list)
  THEN [r EXCEPT !.phase = "done", !.ret = IF err THEN "error" ELSE "ok",
                 !.named = IF err THEN r.list[r.i] ELSE "",
                 !.failed = IF err THEN Append(r.failed, r.i) ELSE r.failed]
  ELSE [r EXCEPT !.i = r.i + 1, !.phase = "enter",
                 !.failed = IF err THEN Append(r.failed, r.i) ELSE r.failed]

\* the body of the loop once the call for package i has returned: an error
\* is returned at once, wrapped with the name of the package
Returning(r, err) ==
  IF err
  THEN [r EXCEPT !.phase = "done", !.ret = "error", !.named = r.list[r.i],
                 !.failed = Append(r.failed, r.i)]
  ELSE IF r.i = Len(r.list) THEN [r EXCEPT !.phase = "done", !.ret = "ok"]
  ELSE [r EXCEPT !.i = r.i + 1, !.phase = "enter"]

\* LinkPackages / UnlinkPackages is called: an empty list is an error
Invoke(o) ==
  /\ op = "idle"
  /\ run.phase = "done"
  /\ calls < MaxCalls
  /\ \E list \in PackageLists :
       run' = IF Len(list) = 0 THEN [NoRun EXCEPT !.o = o, !.ret = "error"]
              ELSE [NoRun EXCEPT !.o = o, !.list = list, !.i = 1, !.phase = "enter"]
  /\ calls' = calls + 1
  /\ fs0' = fs
  /\ UNCHANGED <<cfg, io, fs, op, todo, emptyDirs, fsInit, log, hist, q>>

LinkPackages == Invoke("link")

UnlinkPackages == Invoke("unlink")

\* the loop calls LinkPackage / UnlinkPackage for package i: the package
\* gate, then the source directory, then the walk
EnterPackage ==
  /\ op = "idle"
  /\ run.phase = "enter"
  /\ run' = [run EXCEPT !.phase = "in", !.entered = Append(run.entered, run.i)]
  /\ emptyDirs' = {}
  /\ UNCHANGED <<cfg, io, fs, calls, fs0, fsInit, q>>
  /\ LET Enter(o, packageName) ==
           \E pkgConfig \in Resolutions(cfg, packageName, <<>>) :
             IF ~MatchesConditions(pkgConfig.Conditions, Env)
             THEN /\ op' = "idle" /\ todo' = <<>>
                  /\ log' = log \cup Logged({Ev("gated", GetSourcePath(cfg, packageName), None)},
                                            calls)
                  /\ hist' = Return(o, FALSE)
             ELSE IF Stat(fs, PkgDirAbs(cfg, packageName)).st # "ok"
             THEN /\ op' = "idle" /\ todo' = <<>>
                  /\ log' = log
                  /\ hist' = Return(o, TRUE)
             ELSE IF WalkList(fs, PkgDirAbs(cfg, packageName)) = <<>>
             THEN /\ op' = IF o = "unlink" THEN "clean" ELSE "idle"
                  /\ todo' = <<>>
                  /\ log' = log
                  /\ hist' = IF o = "unlink" THEN hist ELSE Return(o, FALSE)
             ELSE /\ op' = o /\ todo' = WalkList(fs, PkgDirAbs(cfg, packageName))
                  /\ log' = log
                  /\ hist' = hist
     IN Enter(run.o, run.list[run.i])

\* the call for package i returned to the loop
PackageReturned ==
  /\ op = "idle"
  /\ run.phase = "in"
  /\ run' = Returning(run, hist[Len(hist)].err)
  /\ UNCHANGED <<cfg, io, fs, op, todo, emptyDirs, calls, fs0, fsInit, log, hist, q>>

NextPkgs ==
  \/ LinkPackages \/ UnlinkPackages \/ EnterPackage \/ PackageReturned
  \/ LinkEntry \/ UnlinkEntry \/ UnlinkClean

SpecPkgs == InitPkgs /\ [][NextPkgs]_vars

(***************************************************************************)
(* Two packages with one backup directory.  P links its tree into T; Q has *)
(* the source directory P/d, which holds the one file a, and links it into *)
(* U.  Both have a file with the relative path a.                          *)
(***************************************************************************)
OtherPkg == "Q"

\* opts.Packages: the lists over the two packages
SharedLists == SeqsUpTo({PkgName, OtherPkg}, MaxPkgs)

\* the configurations: Q with the global backup directory or with one of
\* its own, with and without force
ConfigsShared ==
  {Global(<<"B">>, f, FALSE,
          [n \in {PkgName, OtherPkg} |->
             IF n = PkgName THEN PkgBase
             ELSE [PkgBase EXCEPT !.SourceDir = <<"P", "d">>, !.TargetDir = <<"U">>,
                                  !.BackupDir = b]]) :
     f \in BOOLEAN, b \in {<<>>, <<"B", "e">>}}

\* what is at T/a and U/a before the first call
SharedFS ==
  { [SourceTree EXCEPT ![<<"T", "a">>] = ta, ![<<"U">>] = DirNode, ![<<"U", "a">>] = ua] :
      ta \in {None, FileNode("old", Perm664)}, ua \in {None, FileNode("mine", Perm644)} }

InitShared ==
  /\ cfg \in ConfigsShared
  /\ io = {}
  /\ fs \in SharedFS
  /\ op = "idle"
  /\ todo = <<>>
  /\ emptyDirs = {}
  /\ calls = 0
  /\ fs0 = fs
  /\ fsInit = fs
  /\ log = {}
  /\ hist = <<>>
  /\ q = NoQuery
  /\ run = NoRun

\* LinkPackages / UnlinkPackages is called with a list of the two packages
InvokeShared(o) ==
  /\ op = "idle"
  /\ run.phase = "done"
  /\ calls < MaxCalls
  /\ \E list \in SharedLists :
       run' = [NoRun EXCEPT !.o = o, !.list = list, !.i = 1, !.phase = "enter"]
  /\ calls' = calls + 1
  /\ fs0' = fs
  /\ UNCHANGED <<cfg, io, fs, op, todo, emptyDirs, fsInit, log, hist, q>>

LinkShared == InvokeShared("link")

UnlinkShared == InvokeShared("unlink")

NextShared ==
  \/ LinkShared \/ UnlinkShared \/ EnterPackage \/ PackageReturned
  \/ LinkEntry \/ UnlinkEntry \/ UnlinkClean

SpecShared == InitShared /\ [][NextShared]_vars

(***************************************************************************)
(* The resolver on its own: a configuration drawn from a space in which    *)
(* every level sets or leaves unset every field, and GetEffectiveConfig    *)
(* asked for one (package, path) under one map iteration order.            *)
(***************************************************************************)
\* what a level (a package or a file override) sets; tag makes the
\* directories of one level differ from those of every other
Level(profile, tag) ==
  CASE profile = "none" ->
         [TargetDir |-> <<>>, BackupDir |-> <<>>, Force |-> {}, Verbose |-> {},
          DryRun |-> FALSE, Conditions |-> {}]
    [] profile = "dirs" ->
         [TargetDir |-> <<"T", tag>>, BackupDir |-> <<"B", tag>>, Force |-> {},
          Verbose |-> {}, DryRun |-> FALSE, Conditions |-> {}]
    [] profile = "off" ->
         [TargetDir |-> <<>>, BackupDir |-> <<"B", tag>>, Force |-> {FALSE},
          Verbose |-> {FALSE}, DryRun |-> FALSE, Conditions |-> {}]
    [] profile = "on" ->
         [TargetDir |-> <<"T", tag>>, BackupDir |-> <<>>, Force |-> {TRUE},
          Verbose |-> {TRUE}, DryRun |-> TRUE, Conditions |-> {}]
    [] profile = "cond" ->
         [TargetDir |-> <<>>, BackupDir |-> <<>>, Force |-> {TRUE}, Verbose |-> {FALSE},
          DryRun |-> FALSE, Conditions |-> {CondSet(<<tag>>, <<>>, <<>>, <<>>, <<>>)}]
    [] OTHER ->
         [TargetDir |-> <<"T", tag>>, BackupDir |-> <<"B", tag>>, Force |-> {FALSE},
          Verbose |-> {TRUE}, DryRun |-> TRUE,
          Conditions |-> {CondSet(<<tag>>, <<>>, <<>>, <<>>, <<>>)}]

Profiles == {"none", "dirs", "off", "on", "cond", "all"}

\* a FileConfig and a PackageConfig of a level
FileLevel(profile, tag, name) ==
  [TargetDir |-> Level(profile, tag).TargetDir, TargetName |-> name,
   BackupDir |-> Level(profile, tag).BackupDir, Force |-> Level(profile, tag).Force,
   Verbose |-> Level(profile, tag).Verbose, DryRun |-> Level(profile, tag).DryRun,
   Conditions |-> Level(profile, tag).Conditions]

PackageLevel(profile, files) ==
  [SourceDir |-> <<>>, TargetDir |-> Level(profile, "pkg").TargetDir,
   BackupDir |-> Level(profile, "pkg").BackupDir, Force |-> Level(profile, "pkg").Force,
   Verbose |-> Level(profile, "pkg").Verbose, DryRun |-> Level(profile, "pkg").DryRun,
   Conditions |-> Level(profile, "pkg").Conditions, Files |-> files]

\* the keys a files map of the model can hold
FileKeySets ==
  { {}, {"a"}, {"regex:a$"}, {"a", "regex:a$"}, {"regex:a$", "regex:.*"},
    {"a", "regex:a$", "regex:.*"} }

\* the configurations the resolver is asked about: the literal key has a
\* profile of its own, the regex keys share one
ResolverConfigs ==
  {[SourceDir |-> <<>>, TargetDir |-> <<"T">>, BackupDir |-> b, Force |-> f,
    Verbose |-> ~f, DryRun |-> d, Packages |-> <<>>] :
      b \in {<<"B">>, <<>>}, f \in BOOLEAN, d \in BOOLEAN}
  \cup
  {[SourceDir |-> <<>>, TargetDir |-> <<"T">>, BackupDir |-> b, Force |-> f,
    Verbose |-> ~f, DryRun |-> d,
    Packages |-> [n \in {PkgName} |->
                    PackageLevel(pp, [k \in ks |->
                                        IF k = "a"
                                        THEN FileLevel(pl, k, IF pl = "all" THEN <<"b">>
                                                              ELSE <<>>)
                                        ELSE FileLevel(pr, k, <<>>)])]] :
      b \in {<<"B">>, <<>>}, f \in BOOLEAN, d \in BOOLEAN,
      pp \in Profiles, ks \in FileKeySets, pl \in Profiles, pr \in Profiles}

\* the paths the resolver is asked about; "" is the package itself
QueryRels == {<<>>, <<"a">>, <<"b">>, <<"d", "a">>}

InitCfg ==
  /\ cfg \in ResolverConfigs
  /\ io = {}
  /\ fs = SourceTree
  /\ op = "idle"
  /\ todo = <<>>
  /\ emptyDirs = {}
  /\ calls = 0
  /\ fs0 = fs
  /\ fsInit = fs
  /\ log = {}
  /\ hist = <<>>
  /\ q = NoQuery
  /\ run = NoRun

\* the call of GetEffectiveConfig of a behaviour
Resolve ==
  /\ ~q.asked
  /\ \E rel \in QueryRels, order \in Orders(FilesOf(cfg, PkgName)) :
       q' = [asked |-> TRUE, rel |-> rel, order |-> order,
             eff |-> GetEffectiveConfig(cfg, PkgName, rel, order)]
  /\ UNCHANGED <<cfg, io, fs, op, todo, emptyDirs, calls, fs0, fsInit, log, hist, run>>

NextCfg == Resolve

SpecCfg == InitCfg /\ [][NextCfg]_vars

(***************************************************************************)
(* The condition matcher on its own: MatchesConditions asked for one       *)
(* condition set on one machine.                                           *)
(***************************************************************************)
\* the version strings of the matcher's queries
V31 == <<"3", ".", "1">>

V29 == <<"2", ".", "9">>

V12 == <<"1", ".", "2">>

AtLeast30 == <<">", "=", "3", ".", "0">>

Below2 == <<"<", "2">>

OSLists == {<<>>, <<"darwin">>, <<"darwin", "linux">>}

DistroLists == {<<>>, <<"Arch">>, <<"ubuntu", "arch">>}

ExecutableLists == {<<>>, <<"sway">>, <<"sway", "hyprland">>}

VersionMaps ==
  {<<>>, [x \in {"sway"} |-> AtLeast30],
   [x \in {"sway", "hyprland"} |-> IF x = "sway" THEN AtLeast30 ELSE Below2]}

UserLists == {<<>>, <<"root", "u">>}

\* nil and every ConditionSet over the lists
ConditionSets ==
  {{}} \cup
  {{CondSet(os, distro, executable, executableVersion, user)} :
     os \in OSLists, distro \in DistroLists, executable \in ExecutableLists,
     executableVersion \in VersionMaps, user \in UserLists}

\* what getExecutableVersion can return for sway
Probes == {[ok |-> FALSE, v |-> <<>>], [ok |-> TRUE, v |-> V31], [ok |-> TRUE, v |-> V29]}

\* the machines: the distribution "" is one that could not be detected
Machines ==
  {[os |-> os, distro |-> distro, execs |-> execs, user |-> user,
    vers |-> [x \in {"sway", "hyprland"} |->
                IF x = "sway" THEN probe ELSE [ok |-> TRUE, v |-> V12]]] :
     os \in {"linux", "darwin"}, distro \in {"arch", "ubuntu", ""},
     execs \in SUBSET {"sway", "hyprland"}, user \in {"u", "w"}, probe \in Probes}

InitCond ==
  /\ cfg = Global(<<"B">>, FALSE, FALSE, <<>>)
  /\ io = {}
  /\ fs = SourceTree
  /\ op = "idle"
  /\ todo = <<>>
  /\ emptyDirs = {}
  /\ calls = 0
  /\ fs0 = fs
  /\ fsInit = fs
  /\ log = {}
  /\ hist = <<>>
  /\ q \in {[asked |-> FALSE, cs |-> cs, env |-> env, res |-> FALSE] :
              cs \in ConditionSets, env \in Machines}
  /\ run = NoRun

\* one call of MatchesConditions
Match ==
  /\ ~q.asked
  /\ q' = [q EXCEPT !.asked = TRUE, !.res = MatchesConditions(q.cs, q.env)]
  /\ UNCHANGED <<cfg, io, fs, op, todo, emptyDirs, calls, fs0, fsInit, log, hist, run>>

NextCond == Match

SpecCond == InitCond /\ [][NextCond]_vars

(***************************************************************************)
(* The version constraints on their own: versionMeetsConstraint and        *)
(* compareVersions asked for one version and one constraint.  A version    *)
(* is written from its components, a constraint from an operator, the      *)
(* space that may follow it and the required version.                      *)
(***************************************************************************)
MaxComps == 3

MaxReqComps == 2

\* the components: two numbers whose numerical and lexical orders differ,
\* a word and the empty component
VerComps == {<<"2">>, <<"1", "0">>, <<"a">>, <<>>}

\* the versions 1.2, 1.2.0, 3.1, 2.9 and 3.0 by their components
C12v == <<<<"1">>, <<"2">>>>

C120 == <<<<"1">>, <<"2">>, <<"0">>>>

C31 == <<<<"3">>, <<"1">>>>

C29 == <<<<"2">>, <<"9">>>>

C30 == <<<<"3">>, <<"0">>>>

Versions == SeqsUpTo(VerComps, MaxComps) \cup {C12v, C120, C31, C29, C30}

RequiredVersions == SeqsUpTo(VerComps, MaxReqComps) \cup {C120, C30}

Operators == {<<">", "=">>, <<">">>, <<"<", "=">>, <<"<">>, <<"=">>, <<>>}

Pads == {<<>>, <<" ">>}

\* the string of a version: its components with a dot between them
RECURSIVE JoinDots(_)
JoinDots(comps) ==
  IF Len(comps) = 1 THEN comps[1]
  ELSE comps[1] \o <<".">> \o JoinDots(Tail(comps))

InitVer ==
  /\ cfg = Global(<<"B">>, FALSE, FALSE, <<>>)
  /\ io = {}
  /\ fs = SourceTree
  /\ op = "idle"
  /\ todo = <<>>
  /\ emptyDirs = {}
  /\ calls = 0
  /\ fs0 = fs
  /\ fsInit = fs
  /\ log = {}
  /\ hist = <<>>
  /\ q \in {[asked |-> FALSE, v |-> v, op |-> o, pad |-> pad, r |-> r, cmp |-> 0,
             meets |-> FALSE] :
              v \in Versions, o \in Operators, pad \in Pads, r \in RequiredVersions}
  /\ run = NoRun

\* one call of compareVersions and one of versionMeetsConstraint
Constrain ==
  /\ ~q.asked
  /\ q' = [q EXCEPT !.asked = TRUE,
                    !.cmp = compareVersions(JoinDots(q.v), JoinDots(q.r)),
                    !.meets = versionMeetsConstraint(JoinDots(q.v),
                                                     q.op \o q.pad \o JoinDots(q.r))]
  /\ UNCHANGED <<cfg, io, fs, op, todo, emptyDirs, calls, fs0, fsInit, log, hist, run>>

NextVer == Constrain

SpecVer == InitVer /\ [][NextVer]_vars

(***************************************************************************)
(* Properties of the engines.                                              *)
(***************************************************************************)
\* the entries of the package's source tree and their source paths
Entries == {WalkOrder[i] : i \in 1..Len(WalkOrder)}

SrcOf(rel) == Join(PkgDirAbs(cfg, PkgName), rel)

FileEntries == {rel \in Entries : NodeAt(SourceTree, SrcOf(rel)).k = "file"}

DirEntries == {rel \in Entries : NodeAt(SourceTree, SrcOf(rel)).k = "dir"}

\* the target paths an entry can resolve to
TargetsOf(rel) == {GetTargetPath(e) : e \in Resolutions(cfg, PkgName, rel)}

\* dry run is off / on for the package and every entry, force is on for
\* every entry, backups are on for every entry
NoDry == \A rel \in Entries \cup {<<>>} :
           \A e \in Resolutions(cfg, PkgName, rel) : ~IsDryRun(e)

AllDry == \A rel \in Entries \cup {<<>>} :
            \A e \in Resolutions(cfg, PkgName, rel) : IsDryRun(e)

AllForce == \A rel \in Entries : \A e \in Resolutions(cfg, PkgName, rel) : ShouldForce(e)

AllBackup == \A rel \in Entries :
               \A e \in Resolutions(cfg, PkgName, rel) : GetBackupPath(e, rel) # <<>>

\* the conditions of an entry pass, whatever the resolution
CondOk(rel) == \A e \in Resolutions(cfg, PkgName, rel) : MatchesConditions(e.Conditions, Env)

LinkOk == [op |-> "link", err |-> FALSE]

UnlinkOk == [op |-> "unlink", err |-> FALSE]

\* the events of call n
EventsOf(n) == {e \in log : e.n = n}

\* the paths below the target directories
TargetTree == {p \in Paths : p[1] \in {"T", "U"}}

\* C1: two LinkPackage calls in succession, not dry and with force: the
\* second leaves the filesystem as the first left it and every entry it
\* does not skip takes the "already linked" branch (no directory made, no
\* backup copied, no target removed, no symlink created).
C1_LinkTwice ==
  (op = "idle" /\ hist = <<LinkOk, LinkOk>> /\ NoDry /\ AllForce)
    => /\ fs = fs0
       /\ \A e \in EventsOf(2) : e.kind \in {"already", "skipped", "gated"}

\* C2: UnlinkPackage never removes a target path that holds a regular file
\* or a symlink whose destination is not the source path of an entry that
\* resolves to that target path.
C2_UnlinkOwnership ==
  \A e \in log :
    e.kind \in {"unlink", "rmdir"}
      => /\ e.node.k # "file"
         /\ e.node.k = "link"
              => \E rel \in Entries : e.path \in TargetsOf(rel) /\ e.node.dest = SrcOf(rel)

\* C3: LinkPackage that backed up a pre-existing file (not dry, with force),
\* then UnlinkPackage: the target tree is as it was before the link, content
\* and permission bits included, and the backup files are gone.
C3_RoundTrip ==
  (/\ op = "idle" /\ hist = <<LinkOk, UnlinkOk>> /\ NoDry /\ AllForce /\ AllBackup
   /\ \E e \in EventsOf(1) : e.kind = "copy" /\ e.node.k = "none"
   /\ \A e \in EventsOf(1) : e.kind = "remove" => e.node.k = "file")
    => /\ \A p \in TargetTree : fs[p] = fsInit[p]
       /\ \A e \in EventsOf(1) : e.kind = "copy" => fs[e.path] = None

\* the system calls that change the filesystem, as events
Mutations ==
  {"mkdir", "copy", "remove", "symlink", "unlink", "restore", "rmbackup", "rmdir"}

\* the effective dryRun is true for a path, whatever the resolution
DryFor(rel) == \A e \in Resolutions(cfg, PkgName, rel) : IsDryRun(e)

\* the step to come works under an effective dryRun of true: the walk is at
\* an entry that is dry, or the cleanup pass is and the package is dry
DryStep ==
  \/ op \in {"link", "unlink"} /\ todo # <<>> /\ DryFor(Head(todo))
  \/ op = "clean" /\ DryFor(<<>>)

\* C4: with dry run on for the package and every entry (as a global dryRun
\* makes it), the filesystem stays what it was before the first call in
\* every step of every sequence of calls, also after a call that returned
\* an error, and no system call that changes it is made; and a step that
\* works under an effective dryRun of true leaves the filesystem as it is.
C4_DryRunChangesNothing ==
  /\ [](AllDry => (fs = fsInit /\ \A e \in log : e.kind \notin Mutations))
  /\ [][DryStep => fs' = fs]_vars

C4_Witness ==
  /\ AllDry /\ op = "idle" /\ Len(hist) = 2
  /\ hist[1] = [op |-> "link", err |-> TRUE]
  /\ hist[2] = [op |-> "unlink", err |-> TRUE]
  /\ fsInit[<<"T", "a">>].k = "file"
  /\ fsInit[<<"B", "a">>].k = "file"

\* distinct source files resolve to distinct target paths
DistinctTargets ==
  \A r1, r2 \in FileEntries : r1 # r2 => TargetsOf(r1) \cap TargetsOf(r2) = {}

\* the last call was a LinkPackage that returned nil, not dry, in which no
\* conflict was declined
LinkedOk ==
  /\ op = "idle" /\ calls > 0 /\ hist[calls] = LinkOk
  /\ NoDry
  /\ \A e \in EventsOf(calls) : e.kind # "declined"

\* every source file whose conditions pass has the symlink to its source
\* path at its target path
FilesLinked ==
  \A rel \in FileEntries :
    CondOk(rel) => \E t \in TargetsOf(rel) : Lstat(fs, t).node = LinkNode(SrcOf(rel))

C6_OthersUntouched ==
  \A p \in TargetTree :
    (fsInit[p] # None /\ \A rel \in Entries : p \notin TargetsOf(rel)) => fs[p] = fsInit[p]

(***************************************************************************)
(* Properties of the resolver, each against the levels of the              *)
(* configuration read directly.                                            *)
(***************************************************************************)
HasPkg == PkgName \in DOMAIN cfg.Packages

PkgOf == IF HasPkg THEN cfg.Packages[PkgName] ELSE PkgBase

\* the regex keys whose pattern matches a path
RegexKeys(rel) ==
  {k \in DOMAIN PkgOf.Files : HasRegexPrefix(k) /\ MatchString(TrimRegexPrefix(k), rel)}

\* the file overrides that can be the matched one; the override that sets
\* nothing stands for "no override matches"
MatchedFiles(rel) ==
  IF Base(rel) \in DOMAIN PkgOf.Files THEN {PkgOf.Files[Base(rel)]}
  ELSE IF RegexKeys(rel) # {} THEN {PkgOf.Files[k] : k \in RegexKeys(rel)}
  ELSE {FileBase}

\* the most specific level that sets a directory / a *bool
DirFrom(file, pkg, global) ==
  IF file # <<>> THEN file ELSE IF pkg # <<>> THEN pkg ELSE global

FlagFrom(file, pkg, global) ==
  IF file # {} THEN file ELSE IF pkg # {} THEN pkg ELSE {global}

\* C7: targetDir, backupDir, force and verbose each come from the most
\* specific level that sets them: the matched file override, else the
\* package override, else the global configuration.
C7_Precedence ==
  q.asked =>
    \E m \in MatchedFiles(q.rel) :
      /\ q.eff.TargetDir = DirFrom(m.TargetDir, PkgOf.TargetDir, cfg.TargetDir)
      /\ q.eff.BackupDir = DirFrom(m.BackupDir, PkgOf.BackupDir, cfg.BackupDir)
      /\ q.eff.Force = FlagFrom(m.Force, PkgOf.Force, cfg.Force)
      /\ q.eff.Verbose = FlagFrom(m.Verbose, PkgOf.Verbose, cfg.Verbose)

C7_Witness ==
  /\ q.asked /\ q.rel = <<"a">> /\ HasPkg
  /\ "a" \in DOMAIN PkgOf.Files
  /\ PkgOf.TargetDir = <<"T", "pkg">> /\ PkgOf.Force = {TRUE} /\ cfg.Force
  /\ PkgOf.Files["a"].TargetDir = <<"T", "a">> /\ PkgOf.Files["a"].Force = {FALSE}
  /\ q.eff.TargetDir = <<"T", "a">> /\ q.eff.Force = {FALSE}

\* C8: the effective conditions are the matched file override's when it has
\* any, else the package's, and nil without a package override; the two
\* sets are never combined.
C8_ConditionsReplace ==
  q.asked =>
    \E m \in MatchedFiles(q.rel) :
      q.eff.Conditions = (IF m.Conditions # {} THEN m.Conditions
                          ELSE IF HasPkg THEN PkgOf.Conditions ELSE {})

C8_Witness ==
  /\ q.asked /\ q.rel = <<"a">> /\ HasPkg
  /\ "a" \in DOMAIN PkgOf.Files
  /\ PkgOf.Conditions = {CondSet(<<"pkg">>, <<>>, <<>>, <<>>, <<>>)}
  /\ PkgOf.Files["a"].Conditions = {CondSet(<<"a">>, <<>>, <<>>, <<>>, <<>>)}
  /\ q.eff.Conditions = {CondSet(<<"a">>, <<>>, <<>>, <<>>, <<>>)}

\* C9: the effective dryRun is global OR package OR matched file; a global
\* dryRun is on for every package and path.
C9_DryRunOr ==
  q.asked =>
    /\ \E m \in MatchedFiles(q.rel) : q.eff.DryRun = (cfg.DryRun \/ PkgOf.DryRun \/ m.DryRun)
    /\ cfg.DryRun => q.eff.DryRun

C9_Witness ==
  /\ q.asked /\ q.rel = <<"a">> /\ HasPkg
  /\ "a" \in DOMAIN PkgOf.Files
  /\ cfg.DryRun /\ ~PkgOf.DryRun /\ ~PkgOf.Files["a"].DryRun
  /\ PkgOf.Force # {} /\ PkgOf.Files["a"].Force # {}
  /\ q.eff.DryRun

\* what GetEffectiveConfig is to return when m is the matched file override
Overlay(m, rel) ==
  [TargetDir |-> DirFrom(m.TargetDir, PkgOf.TargetDir, cfg.TargetDir),
   TargetName |-> IF m.TargetName # <<>> THEN Join(Dir(rel), m.TargetName) ELSE rel,
   BackupDir |-> DirFrom(m.BackupDir, PkgOf.BackupDir, cfg.BackupDir),
   Force |-> FlagFrom(m.Force, PkgOf.Force, cfg.Force),
   Verbose |-> FlagFrom(m.Verbose, PkgOf.Verbose, cfg.Verbose),
   DryRun |-> (cfg.DryRun \/ PkgOf.DryRun \/ m.DryRun),
   Conditions |-> IF m.Conditions # {} THEN m.Conditions ELSE PkgOf.Conditions]

\* C10: with a literal key equal to the base name of the path and regex
\* keys that match the path, the literal key's override is the one applied,
\* in every iteration order of the files map.
C10_LiteralFirst ==
  (q.asked /\ Base(q.rel) \in DOMAIN PkgOf.Files /\ RegexKeys(q.rel) # {})
    => q.eff = Overlay(PkgOf.Files[Base(q.rel)], q.rel)

C10_Witness ==
  /\ q.asked /\ q.rel = <<"d", "a">>
  /\ DOMAIN PkgOf.Files = {"a", "regex:a$", "regex:.*"}
  /\ q.order[1] # "a"
  /\ PkgOf.Files[q.order[1]].TargetDir = <<"T", q.order[1]>>
  /\ q.eff.TargetDir = <<"T", "a">>
  /\ q.eff.TargetName = <<"d", "b">>

(***************************************************************************)
(* Properties of the condition matcher.                                    *)
(***************************************************************************)
\* the values a list holds
Elems(list) == {list[i] : i \in 1..Len(list)}

\* the reference evaluation of a category that lists something
OSPasses(cs, env) == \E v \in Elems(cs.OS) : v = env.os

UserPasses(cs, env) == \E v \in Elems(cs.User) : v = env.user

DistroPasses(cs, env) ==
  env.os = "linux" => \E v \in Elems(cs.Distro) : ToLower(v) = ToLower(env.distro)

ExecutablePasses(cs, env) == \A v \in Elems(cs.Executable) : v \in env.execs

VersionPasses(cs, env) ==
  \A x \in DOMAIN cs.ExecutableVersion :
    /\ x \in env.execs
    /\ env.vers[x].ok
    /\ versionMeetsConstraint(env.vers[x].v, cs.ExecutableVersion[x])

\* the reference evaluation of a *ConditionSet
Reference(conditionSet, env) ==
  \A cs \in conditionSet :
    /\ cs.OS # <<>> => OSPasses(cs, env)
    /\ cs.Distro # <<>> => DistroPasses(cs, env)
    /\ cs.Executable # <<>> => ExecutablePasses(cs, env)
    /\ DOMAIN cs.ExecutableVersion # {} => VersionPasses(cs, env)
    /\ cs.User # <<>> => UserPasses(cs, env)

SomeMatches(cs, env) ==
  /\ cs.OS # <<>> => \E v \in Elems(cs.OS) : v = env.os
  /\ cs.Distro # <<>> =>
       (env.os = "linux" => \E v \in Elems(cs.Distro) : ToLower(v) = ToLower(env.distro))
  /\ cs.Executable # <<>> => \E v \in Elems(cs.Executable) : v \in env.execs
  /\ cs.User # <<>> => \E v \in Elems(cs.User) : v = env.user

\* C12: within a category the listed values are alternatives: a condition
\* set whose every category, executable included, has one value that
\* matches the machine is matched (the executable_version constraints, one
\* per executable, being met).
C12_OrWithinCategory ==
  q.asked =>
    \A cs \in q.cs :
      (SomeMatches(cs, q.env) /\ VersionPasses(cs, q.env)) => q.res

(***************************************************************************)
(* Properties of the version constraints.                                  *)
(***************************************************************************)
Sign(n) == IF n < 0 THEN -1 ELSE IF n > 0 THEN 1 ELSE 0

\* a component that is an integer, and its value
IsInt(x) == x # <<>> /\ \A i \in 1..Len(x) : x[i] \in Digits

\* the lexical order of two components: the first position where they
\* differ decides, and a proper prefix comes first
LexOrder(x, y) ==
  LET Diff(n) == {i \in 1..n : x[i] # y[i]}
      At(D) == IF D # {}
               THEN Sign(Byte(x[CHOOSE i \in D : \A j \in D : i <= j])
                         - Byte(y[CHOOSE i \in D : \A j \in D : i <= j]))
               ELSE Sign(Len(x) - Len(y))
  IN At(Diff(IF Len(x) < Len(y) THEN Len(x) ELSE Len(y)))

CompOrder(x, y) ==
  IF IsInt(x) /\ IsInt(y) THEN Sign(DigitsValue(x) - DigitsValue(y)) ELSE LexOrder(x, y)

\* the order of two versions: the first component where they differ
\* decides, and the version that runs out of components first is smaller
VersionOrder(c1, c2) ==
  LET Diff(n) == {i \in 1..n : CompOrder(c1[i], c2[i]) # 0}
      At(D) == IF D # {}
               THEN CompOrder(c1[CHOOSE i \in D : \A j \in D : i <= j],
                              c2[CHOOSE i \in D : \A j \in D : i <= j])
               ELSE Sign(Len(c1) - Len(c2))
  IN At(Diff(IF Len(c1) < Len(c2) THEN Len(c1) ELSE Len(c2)))

\* an order that satisfies an operator; no operator is "="
Satisfies(comparison, operator) ==
  CASE operator = <<">", "=">> -> comparison >= 0
    [] operator = <<">">> -> comparison > 0
    [] operator = <<"<", "=">> -> comparison <= 0
    [] operator = <<"<">> -> comparison < 0
    [] operator \in {<<"=">>, <<>>} -> comparison = 0

\* C13: versionMeetsConstraint(v, op r) holds exactly when
\* compareVersions(v, r) satisfies op, a missing operator being "=";
\* compareVersions compares the dot-separated components from the left,
\* as numbers when both are integers and as strings otherwise, and the
\* version that runs out of components first is the smaller one; so
\* compareVersions("1.2", "1.2.0") = -1, "3.1" meets ">=3.0" and "2.9"
\* does not.
C13_VersionConstraint ==
  /\ q.asked =>
       /\ q.cmp = VersionOrder(q.v, q.r)
       /\ q.meets = Satisfies(q.cmp, q.op)
  /\ compareVersions(JoinDots(C12v), JoinDots(C120)) = -1
  /\ versionMeetsConstraint(V31, AtLeast30)
  /\ ~versionMeetsConstraint(V29, AtLeast30)

\* 1.2 asked against "< 1.2.0"
C13_Witness ==
  /\ q.asked
  /\ q.v = C12v /\ q.r = C120 /\ q.op = <<"<">> /\ q.pad = <<" ">>
  /\ q.cmp = -1
  /\ q.meets

(***************************************************************************)
(* Properties of the confirmation prompt.                                  *)
(***************************************************************************)
\* the events that a step adds to the log
NewEvents == log' \ log

\* C14: at the prompt about a conflicting target the answers "y" and "yes",
\* in any letter case, are affirmative: the engine does not skip the entry
\* but goes on to back up, remove and link.
C14_YesAffirmative ==
  [][\A e \in NewEvents :
       (e.kind = "answer" /\ LowerAnswer(e.node.data) \in {"y", "yes"}) =>
         ~\E d \in NewEvents : d.kind = "declined"]_vars

(***************************************************************************)
(* Properties of the paths.                                                *)
(***************************************************************************)
\* the package has a source directory of its own, written ~/e
HomeSource == HasPkg /\ PkgOf.SourceDir = <<"~", "e">>

\* the package has a target directory of its own, written ~
HomeTarget == HasPkg /\ PkgOf.TargetDir = <<"~">>

\* C15: a configured path with a leading "~" is expanded to the home
\* directory before the engine stats, walks, backs up or links it: no
\* system call is made on a path with a "~" in it, a package whose target
\* directory is ~ is linked below the home directory, and a package whose
\* own source directory is ~/e is walked at e in the home directory, which
\* exists, so that its calls do not fail.
C15_TildeExpanded ==
  /\ \A e \in log : \A i \in 1..Len(e.path) : e.path[i] # "~"
  /\ HomeTarget =>
       \A e \in log : e.kind = "symlink" => SubSeq(e.path, 1, Len(Home)) = Home
  /\ HomeSource => \A i \in 1..Len(hist) : ~hist[i].err

(***************************************************************************)
(* Properties of what unlink removes.                                      *)
(***************************************************************************)
\* C16: UnlinkPackage removes nothing that a previous link did not create;
\* in particular a directory that was in the target tree before the
\* package was ever linked is still there after unlink (and at every time).
C16_UnlinkRemovesOwn ==
  \A p \in Paths : fsInit[p].k = "dir" => fs[p].k = "dir"

(***************************************************************************)
(* Properties of the replacement of a conflicting target.                  *)
(***************************************************************************)
\* what reading the file at a path gives: its data, "" when there is no
\* regular file to read
Content(f, p) ==
  LET At(s) == IF s.st = "ok" /\ s.node.k = "file" THEN s.node.data ELSE ""
  IN At(Stat(f, p))

\* the step is the return of a call with an error
ReturnsError == Len(hist') > Len(hist) /\ hist'[Len(hist')].err

C18_DeclineIsSkip ==
  [][\A e \in NewEvents :
       (e.kind = "answer" /\ LowerAnswer(e.node.data) \notin {"y", "yes"}) =>
         /\ fs' = fs
         /\ ~ReturnsError
         /\ todo' = Tail(todo)]_vars

(***************************************************************************)
(* Properties of a walk that meets a failure.                              *)
(***************************************************************************)
\* the step met the failure of a system call, or of the reading of the
\* confirmation
StepFails ==
  \E e \in NewEvents :
    e.kind = "fault" \/ (e.kind = "answer" /\ e.node.data = "")

\* C19: when a filesystem step of LinkPackage fails (directory creation,
\* backup copy, removal, symlink creation, reading the confirmation), the
\* error is returned, no later entry of the package is processed, and what
\* the walk did for the entries before it stays: the symlinks and the
\* backups made so far remain.
C19_FailureAbortsWalk ==
  [][(op = "link" /\ StepFails) =>
       /\ hist' = Append(hist, [op |-> "link", err |-> TRUE])
       /\ op' = "idle" /\ todo' = <<>>
       /\ \A i \in 2..Len(todo) : \A t \in TargetsOf(todo[i]) : NodeAt(fs', t) = NodeAt(fs, t)
       /\ \A e \in EventsOf(calls) :
            e.kind \in {"symlink", "copy", "mkdir"} =>
              NodeAt(fs', e.path) = NodeAt(fs, e.path) /\ NodeAt(fs', e.path) # None]_vars

\* a was linked, the symlink for b could not be created, and d was not
\* visited
C19_Witness ==
  /\ hist = <<[op |-> "link", err |-> TRUE]>>
  /\ \E e \in log : e.kind = "fault" /\ e.path = <<"b">> /\ e.node.data = "symlink"
  /\ fsInit[<<"T", "a">>] = None /\ fs[<<"T", "a">>] = LinkNode(<<"P", "a">>)
  /\ fs[<<"T", "b">>] = None
  /\ fsInit[<<"T", "d">>] = None /\ fs[<<"T", "d">>] = None

(***************************************************************************)
(* Properties of the calls over a list of packages.                        *)
(***************************************************************************)
\* C20: LinkPackages and UnlinkPackages process the packages in list
\* order; when package i fails (a source directory that does not exist
\* included) the call returns an error naming package i, no package after
\* i is entered and nothing is changed for it, and what was done for the
\* packages before i stays; an empty list is an error and changes nothing.
C20_FailFast ==
  /\ [](/\ \A j \in 1..Len(run.entered) : run.entered[j] = j
        /\ run.failed # <<>> =>
             /\ run.phase = "done" /\ run.ret = "error"
             /\ run.failed = <<Len(run.entered)>>
             /\ run.named = run.list[run.failed[1]]
        /\ run.phase = "enter" => (run.i = 1 \/ ~hist[Len(hist)].err)
        /\ run.ret = "ok" => (Len(run.entered) = Len(run.list) /\ run.failed = <<>>)
        /\ (run.o # "none" /\ run.list = <<>>) =>
             (run.ret = "error" /\ fs = fs0 /\ EventsOf(calls) = {}))
  /\ [][(run.ret = "error" /\ run'.ret = "error") => fs' = fs]_vars
  /\ [][(run.phase = "in" /\ run'.phase = "done") => fs' = fs]_vars

\* LinkPackages(P, X): P was linked, then X failed for want of a source
\* directory; the error names X and the symlink of P is there
C20_Witness ==
  /\ run.o = "link" /\ run.list = <<PkgName, MissingPkg>>
  /\ run.ret = "error" /\ run.named = MissingPkg
  /\ fsInit[<<"T", "a">>] = None
  /\ fs[<<"T", "a">>] = LinkNode(<<"P", "a">>)

(***************************************************************************)
(* Properties of unlink.                                                   *)
(***************************************************************************)
\* the last call that returned was an UnlinkPackage without an error, and
\* no call is in progress
AfterUnlink == op = "idle" /\ hist # <<>> /\ hist[Len(hist)] = UnlinkOk

\* the package gate lets the package through, whatever the resolution
GateOk == CondOk(<<>>)

\* every entry resolves to one target path and one backup path
OneResolution(rel) ==
  /\ Cardinality(TargetsOf(rel)) = 1
  /\ Cardinality({GetBackupPath(e, rel) : e \in Resolutions(cfg, PkgName, rel)}) = 1

\* C21: after a successful UnlinkPackage that is not dry, no file entry of
\* the source tree whose conditions pass has at its resolved target path a
\* symlink whose destination is the source path of the entry.
C21_OwnLinksRemoved ==
  (AfterUnlink /\ NoDry /\ GateOk) =>
    \A rel \in FileEntries :
      CondOk(rel) =>
        \A t \in TargetsOf(rel) : Lstat(fs, t).node # LinkNode(SrcOf(rel))

\* the step is unlinkFile for a file entry that is not dry, whose
\* conditions pass, and whose one backup path holds a file
RestoreStep ==
  /\ op = "unlink" /\ todo # <<>>
  /\ Head(todo) \in FileEntries
  /\ CondOk(Head(todo)) /\ OneResolution(Head(todo)) /\ ~DryFor(Head(todo))
  /\ \A e \in Resolutions(cfg, PkgName, Head(todo)) :
       /\ ~IsDryRun(e)
       /\ GetBackupPath(e, Head(todo)) # <<>>
       /\ Stat(fs, GetBackupPath(e, Head(todo))).node.k = "file"

\* the target path and the backup path of the entry of a RestoreStep
TargetOfStep == CHOOSE t \in TargetsOf(Head(todo)) : TRUE

BackupOfStep ==
  CHOOSE b \in {GetBackupPath(e, Head(todo)) : e \in Resolutions(cfg, PkgName, Head(todo))} : TRUE

\* the backup has been copied to the target path and deleted
Restored ==
  /\ Content(fs', TargetOfStep) = Content(fs, BackupOfStep)
  /\ NodeAt(fs', BackupOfStep) = None

C23_ForeignUntouched ==
  [][(op = "unlink" /\ todo # <<>> /\ Head(todo) \in FileEntries) =>
       \A t \in TargetsOf(Head(todo)) :
         (Lstat(fs, t).node.k = "link" /\ Lstat(fs, t).node.dest # SrcOf(Head(todo)))
           => /\ Lstat(fs', t).node = Lstat(fs, t).node
              /\ Content(fs', t) = Content(fs, t)]_vars

(***************************************************************************)
(* The second pass of UnlinkPackage on its own: the walk is over, the      *)
(* target directories it recorded are in emptyDirs, and the target tree    *)
(* holds mirrored directories two levels deep (T/d with T/d/a and T/d/b    *)
(* below it, T/d possibly a symbolic link to T/e).                         *)
(***************************************************************************)
\* what a mirrored directory or something inside one can be
CleanNodes == {None, DirNode, FileNode("other", Perm644)}

\* the target trees the walk can leave behind
CleanTrees ==
  LET Trees ==
        { [SourceTree EXCEPT ![<<"T", "d">>] = td, ![<<"T", "d", "a">>] = x,
                             ![<<"T", "d", "b">>] = y, ![<<"T", "e", "a">>] = z] :
            td \in {None, DirNode, LinkNode(<<"T", "e">>)},
            x \in CleanNodes, y \in CleanNodes, z \in CleanNodes }
  IN {t \in Trees : \A p \in Paths : t[p] # None /\ Len(p) > 1 => t[Dir(p)] = DirNode}

\* the target paths of the directory entries d, d/a and d/b
CleanRecorded == SUBSET {<<"T", "d">>, <<"T", "d", "a">>, <<"T", "d", "b">>}

InitClean ==
  /\ cfg \in {Global(<<"B">>, FALSE, d, <<>>) : d \in BOOLEAN}
  /\ io \in {{}, {"remove"}}
  /\ fs \in CleanTrees
  /\ op = "clean"
  /\ todo = <<>>
  /\ emptyDirs \in CleanRecorded
  /\ calls = 1
  /\ fs0 = fs
  /\ fsInit = fs
  /\ log = {}
  /\ hist = <<>>
  /\ q = NoQuery
  /\ run = NoRun

NextClean == UnlinkClean

SpecClean == InitClean /\ [][NextClean]_vars

\* the paths below a directory, at any depth
Below(p) == {c \in Paths : Len(c) > Len(p) /\ SubSeq(c, 1, Len(p)) = p}

\* a recorded directory that holds nothing but recorded directories
EmptyChain(p) ==
  /\ p \in emptyDirs
  /\ fs[p] = DirNode
  /\ \A c \in Below(p) : fs[c] # None => (fs[c] = DirNode /\ c \in emptyDirs)

\* the directory entries the recorded paths name (a recorded path can lead
\* through a symbolic link)
RecordedLocs == {Loc(fs, p, MaxHops) : p \in emptyDirs}

\* a removal failed during the pass
RemovalFailed == \E p \in emptyDirs : fs[p] = DirNode /\ Children(fs, p) = {} /\ fs'[p] = DirNode

\* C24: the second pass of UnlinkPackage removes a directory only when it
\* has no entry at the time it is visited, so what it removes held nothing
\* but recorded directories that it removed before, and no file and nothing
\* that no recorded path names goes; a recorded directory that holds nothing but
\* recorded directories is removed with all of them by the one pass when
\* it is not dry and no removal fails; and the call returns nil also when
\* a removal fails.
C24_Cleanup ==
  [][op = "clean" =>
       /\ \A p \in Paths :
            (fs[p] = DirNode /\ fs'[p] = None)
              => \A c \in Children(fs, p) :
                   fs[c] = DirNode /\ c \in RecordedLocs /\ fs'[c] = None
       /\ \A p \in Paths : (fs[p].k = "file" \/ p \notin RecordedLocs) => fs'[p] = fs[p]
       /\ \A p \in Paths :
            (EmptyChain(p) /\ ~cfg.DryRun /\ ~RemovalFailed)
              => \A c \in Below(p) \cup {p} : fs'[c] = None
       /\ ~ReturnsError]_vars

\* T/d and T/d/a, both recorded and holding nothing else, are gone after
\* the pass
C24_Witness ==
  /\ op = "idle"
  /\ hist = <<UnlinkOk>>
  /\ fsInit[<<"T", "d">>] = DirNode
  /\ fsInit[<<"T", "d", "a">>] = DirNode
  /\ emptyDirs = {<<"T", "d">>, <<"T", "d", "a">>}
  /\ fs[<<"T", "d">>] = None
  /\ fs[<<"T", "d", "a">>] = None

(***************************************************************************)
(* Properties of the entries and packages whose conditions do not match.   *)
(***************************************************************************)
\* the conditions of an entry fail, whatever the resolution
CondFails(rel) ==
  \A e \in Resolutions(cfg, PkgName, rel) : ~MatchesConditions(e.Conditions, Env)

\* the step for an entry whose conditions fail changes nothing, returns no
\* error and leaves the walk at the next entry; the call of a package
\* whose conditions fail returns nil and changes nothing
SilentSkip ==
  /\ (op \in {"link", "unlink"} /\ todo # <<>> /\ CondFails(Head(todo)))
       => /\ fs' = fs
          /\ ~ReturnsError
          /\ todo' = Tail(todo)
          /\ Tail(todo) # <<>> => op' = op
          /\ \A e \in NewEvents : e.kind = "skipped"
  /\ (op = "idle" /\ calls' = calls + 1 /\ CondFails(<<>>))
       => /\ fs' = fs
          /\ op' = "idle"
          /\ Len(hist') = Len(hist) + 1 /\ ~hist'[Len(hist')].err

\* the target paths of the entries whose conditions fail are as they were
\* before the first call
SkippedUntouched ==
  \A rel \in Entries :
    CondFails(rel) => \A t \in TargetsOf(rel) : Lstat(fs, t) = Lstat(fsInit, t)

Gated == op = "idle" /\ calls' = calls + 1 /\ \E e \in NewEvents : e.kind = "gated"

\* C26: whether LinkPackage / UnlinkPackage goes past the package gate
\* depends on the conditions of the package override alone: the call stops
\* at the gate exactly when these do not match, whatever the files map of
\* the package holds.
C26_GateIsPackageLevel ==
  [][(op = "idle" /\ calls' = calls + 1)
       => (Gated <=> ~MatchesConditions(PkgOf.Conditions, Env))]_vars

(***************************************************************************)
(* Properties of the resolution as a function of the configuration.        *)
(***************************************************************************)
\* C27: for a fixed configuration GetEffectiveConfig returns the same
\* effective settings for a path every time it is called: what one call
\* returned is what a call returns under every iteration order of the
\* files map, also when several regex keys match the path.
C27_ResolutionDeterministic ==
  q.asked =>
    \A o \in Orders(FilesOf(cfg, PkgName)) :
      GetEffectiveConfig(cfg, PkgName, q.rel, o) = q.eff

(***************************************************************************)
(* Properties of the source tree.                                          *)
(***************************************************************************)
\* the paths at and below the source directory of the package
SourcePaths ==
  {p \in Paths : Len(p) >= Len(PkgDirAbs(cfg, PkgName))
                 /\ SubSeq(p, 1, Len(PkgDirAbs(cfg, PkgName))) = PkgDirAbs(cfg, PkgName)}

\* the target and backup directories an entry can resolve to lie outside
\* the source directory of the package
OutsideSource ==
  \A rel \in Entries : \A e \in Resolutions(cfg, PkgName, rel) :
    /\ GetTargetPath(e) \notin SourcePaths
    /\ GetBackupPath(e, rel) \notin SourcePaths

\* C28: with the target and backup directories outside the source tree of
\* the package, no sequence of LinkPackage and UnlinkPackage calls creates,
\* deletes or changes a file of the source tree.
C28_SourceReadOnly ==
  OutsideSource => \A p \in SourcePaths : fs[p] = fsInit[p]

(***************************************************************************)
(* Properties of the backups of two packages.                              *)
(***************************************************************************)
\* LinkPackages(P, Q) and then UnlinkPackages(P, Q) have returned nil, and
\* no conflict was declined
LinkedAndUnlinkedBoth ==
  /\ op = "idle" /\ run.phase = "done" /\ run.ret = "ok" /\ calls = 2
  /\ run.o = "unlink" /\ run.list = <<PkgName, OtherPkg>>
  /\ hist = <<LinkOk, LinkOk, UnlinkOk, UnlinkOk>>
  /\ \E e \in EventsOf(1) : e.kind \in {"symlink", "already"} /\ e.path = <<"T", "a">>
  /\ \E e \in EventsOf(1) : e.kind \in {"symlink", "already"} /\ e.path = <<"U", "a">>
  /\ \A e \in log : e.kind # "declined"

\* C29: the backups of two different targets do not collide: after
\* LinkPackages(P, Q) and then UnlinkPackages(P, Q), with the backups of
\* both packages enabled, the files that were at the target paths T/a and
\* U/a before the link are there again, each with its own content.
C29_BackupsApart ==
  LinkedAndUnlinkedBoth =>
    /\ fsInit[<<"T", "a">>].k = "file" => Content(fs, <<"T", "a">>) = "old"
    /\ fsInit[<<"U", "a">>].k = "file" => Content(fs, <<"U", "a">>) = "mine"

(***************************************************************************)
(* Properties of two unlinks in succession.                                *)
(***************************************************************************)
\* C30: two UnlinkPackage calls in succession, not dry: the second leaves
\* the filesystem as the first left it; it removes no symlink, restores no
\* backup and removes no directory.
C30_UnlinkTwice ==
  (op = "idle" /\ hist = <<UnlinkOk, UnlinkOk>> /\ NoDry)
    => /\ fs = fs0
       /\ \A e \in EventsOf(2) : e.kind \notin Mutations

====
